---- MODULE Spec2Model ----
(***************************************************************************)
(* Client orchestration layer of Codemind: the repository status poller   *)
(* (lib/api.ts pollRepositoryStatus), the code search hook                *)
(* (lib/hooks/useCodeSearch.ts) and the chat senders (lib/api.ts          *)
(* repositoryApi.chatStream and repositoryApi.chat, lib/hooks/useChat.ts  *)
(* sendMessage).                                                           *)
(*                                                                         *)
(* JavaScript runs on a single-threaded event loop: every action below is *)
(* one run-to-completion task (the code between two suspension points).   *)
(***************************************************************************)
EXTENDS Integers, Sequences, FiniteSets, TLC

VARIABLES
    \* ---- pollRepositoryStatus (one call) ----
    pollPc,        \* "init" | "awaiting" (l.501) | "waiting" (l.508) | "resolved" | "rejected"
    attempt,       \* the local `attempt`
    maxAttempts,   \* the argument maxAttempts
    inFlight,      \* status requests issued and not yet settled
    requests,      \* status requests issued so far
    waits,         \* interval waits started so far
    fetched,       \* repositories returned by the status requests, in order
    updates,       \* arguments of the onUpdate calls, in order
    pollResult,    \* the repository the call resolved with
    pollError,     \* the error the call rejected with
    onUpdateKind,  \* the onUpdate argument: "plain" (returns normally) | "home"
    abandoned,     \* the caller has stopped tracking the call
    \* ---- useCodeSearch (one hook instance) ----
    mounted,       \* the first render and its effects have run
    autoSearch,    \* options.autoSearch
    query, results, totalResults, isLoading, error, latency,
    currentPage, mode, filters,          \* the hook's state cells, l.27-35
    debouncedQuery,   \* the value useDebounce returns
    debouncePending,  \* the debounce timer is running
    windowChanges,    \* query changes since the timer was last idle (0, 1, 2 = two or more)
    execs,         \* the state of each search execution that issued a request, in issue order
    lastRequest,   \* the parameters of the request issued last, while it is unanswered
    \* ---- one call of a chat sender: repositoryApi.chatStream,
    \*      repositoryApi.chat or useChat.sendMessage ----
    sender,        \* which of the three is called
    question,      \* the question passed to it
    chatPc,        \* "init" | "opening" (the request is awaited) | "reading" (l.364)
                   \* | "fulfilled" | "rejected"; "idle" when no chat is in use
    fetches,       \* the question of each network request issued, in order
    chatError,     \* the message of the error the call rejected with
    sendResult,    \* what the call resolved with
    chatIsLoading, \* useChat's isLoading
    chatHookError, \* useChat's error
    sent,          \* the payloads of the frames of the streamed response
    stream,        \* the bytes of the response body
    pos,           \* how many of them reader.read() has delivered
    cuts,          \* where the reads so far have ended: "lines" (each at the end
                   \* of a line) | "char" (mid-line, only inside a multi-byte
                   \* character) | "other"
    calls,         \* the callback invocations, in order
    acquired,      \* response.body.getReader() has returned the reader (l.355)
    released,      \* calls of reader.releaseLock()
    aborted,       \* the caller has given up the session
    callsAtAbort,  \* Len(calls) when it did
    throwing,      \* the callbacks of the caller that throw when invoked
    \* ---- one application of a function of the client library ----
    fnName,        \* the function
    fnInput,       \* its argument
    fnPc,          \* "ready" | "done"; "idle" when none is applied
    fnOutput,      \* how it completed: [kind |-> "return" | "throw", value |-> ...]
    fnEnv,         \* process.env.NODE_ENV of the build
    \* ---- one instance of an interval poller hook: useRepository or
    \*      useIndexStatus ----
    hook,          \* which of the two
    hkMounted,     \* "no" | "yes" | "gone" (unmounted)
    hkServer,      \* the status of the job on the backend
    hkReqs,        \* the status requests issued, in order: the status each is
                   \* answered with, and whether it is still in flight
    hkStatus,      \* the status of the repository / job the hook holds
    hkPolling,     \* useRepository's isPolling
    hkInterval,    \* the number of setInterval timers of the polling effect that run
    hkError,       \* the hook's error
    hkLoading,     \* the hook's isLoading
    hkTerminalApplied,  \* a response with a terminal status has been applied
    hkEnabled,     \* useIndexStatus's options.enabled is not false
    \* ---- the ingest flow of the Home page (handleSubmit) ----
    homePc,        \* "form" | "ingesting" (l.278) | "polling" (l.287) | "settled";
                   \* "none" when no Home page is in use
    githubUrl,     \* the text of the URL input
    currentStep,   \* 'idle' | 'ingesting' | 'polling' | 'ready'
    statusMessage, \* the state cell statusMessage
    homeError,     \* the state cell error
    progress,      \* the state cell progress, in units of 1/maxAttempts percent
    repoId,        \* the state cell repoId
    homeIsLoading, \* the state cell isLoading
    pollAttempts   \* the local pollAttempts of handleSubmit

pollVars == <<pollPc, attempt, maxAttempts, inFlight, requests, waits,
              fetched, updates, pollResult, pollError, onUpdateKind, abandoned>>

searchVars == <<mounted, autoSearch, query, results, totalResults, isLoading,
                error, latency, currentPage, mode, filters, debouncedQuery,
                debouncePending, windowChanges, execs, lastRequest>>

senderVars == <<sender, question, fetches, chatError, sendResult, chatIsLoading,
                chatHookError>>

streamVars == <<sent, stream, pos, cuts, calls, acquired, released, aborted,
                callsAtAbort, throwing>>

chatVars == <<chatPc, senderVars, streamVars>>

fnVars == <<fnName, fnInput, fnPc, fnOutput, fnEnv>>

hookVars == <<hook, hkMounted, hkServer, hkReqs, hkStatus, hkPolling, hkInterval,
              hkError, hkLoading, hkTerminalApplied, hkEnabled>>

homeVars == <<homePc, githubUrl, currentStep, statusMessage, homeError, progress,
              repoId, homeIsLoading, pollAttempts>>

vars == <<pollVars, searchVars, chatVars, fnVars, hookVars, homeVars>>

Null == "null"

Last(s) == s[Len(s)]

(***************************************************************************)
(*                       pollRepositoryStatus                              *)
(***************************************************************************)

\* Bound on the maxAttempts argument the model explores.
MaxAttemptsBound == 3

Statuses == {"pending", "processing", "completed", "failed"}

Repo(st) == [id |-> 1, status |-> st]

TransportFailures == {"Network Error", "Request failed with status code 500"}

TimeoutMessage == "Timeout waiting for repository to be processed"

ProcessingFailedMessage == "Repository processing failed"

\* The onUpdate callback of the Home page (frontend/lib/api/search.ts
\* l.289-304) throws for 'failed'; a plain callback returns normally.
OnUpdateReturns(st) == FALSE

OnUpdateThrows(st) == onUpdateKind = "home" /\ st = "failed"

\* A percentage as the model holds progress: in units of 1/maxAttempts
\* percent, so that l.291 stays in the integers.
Percent(p) == p * maxAttempts

Smaller(a, b) == IF a <= b THEN a ELSE b

\* frontend/lib/api/search.ts l.289-304: what the onUpdate callback of
\* handleSubmit does to the state of the Home page when it is called with
\* status st, before it returns or throws.
HomeOnUpdate(st) ==
    IF homePc = "polling"
    THEN /\ pollAttempts' = pollAttempts + 1
         /\ progress' = IF st = "completed" THEN Percent(100)
                        ELSE Smaller(Percent(20) + (pollAttempts + 1) * 70, Percent(90))
         /\ statusMessage' =
                CASE st = "pending" -> "Waiting to start processing..."
                  [] st = "processing" ->
                        "Cloning repository, parsing code, and creating embeddings..."
                  [] st = "completed" -> "Repository ready!"
                  [] OTHER -> statusMessage
         /\ UNCHANGED <<homePc, githubUrl, currentStep, homeError, repoId, homeIsLoading>>
    ELSE UNCHANGED homeVars

\* l.504: repo.status === 'completed' || repo.status === 'failed'
IsTerminalCompletedOnly(st) == st = "completed"

IsTerminal(st) == st = "completed" \/ st = "failed"

\* l.500: the loop condition
PollLoopGuardOffByOne(a) == a <= maxAttempts

PollLoopGuard(a) == a < maxAttempts

\* l.500-501 and l.512: the loop head reached with attempt = a. Either the
\* next status request is issued and awaited, or the loop ends and the
\* timeout error is thrown.
PollLoopHead(a) ==
    IF PollLoopGuard(a)
    THEN /\ pollPc' = "awaiting"
         /\ inFlight' = inFlight + 1
         /\ requests' = requests + 1
         /\ pollError' = pollError
    ELSE /\ pollPc' = "rejected"
         /\ pollError' = TimeoutMessage
         /\ UNCHANGED <<inFlight, requests>>

\* l.492-501: the call itself, up to its first suspension.
PollCallBody ==
    /\ pollPc = "init"
    /\ attempt' = 0
    /\ PollLoopHead(0)
    /\ UNCHANGED <<maxAttempts, waits, fetched, updates, pollResult, onUpdateKind, abandoned>>

\* A call that is not made by the Home page.
PollCall ==
    /\ PollCallBody
    /\ UNCHANGED <<searchVars, chatVars, fnVars, hookVars, homeVars>>

PollStatusResponseUpdateAfterCheck(repo) ==
    /\ pollPc = "awaiting"
    /\ inFlight' = inFlight - 1
    /\ fetched' = Append(fetched, repo)
    /\ IF IsTerminal(repo.status)
       THEN /\ pollPc' = "resolved"
            /\ pollResult' = repo
            /\ UNCHANGED <<waits, updates>>
       ELSE /\ updates' = Append(updates, repo.status)
            /\ pollPc' = "waiting"
            /\ waits' = waits + 1
            /\ UNCHANGED pollResult
    /\ UNCHANGED <<attempt, maxAttempts, requests, pollError, onUpdateKind, abandoned>>
    /\ UNCHANGED <<searchVars, chatVars, fnVars, hookVars, homeVars>>

\* l.501-508: the awaited status request fulfils with `repo`; onUpdate is
\* called (an exception it throws rejects the call), then the call returns
\* or starts the interval wait.
PollStatusResponse(repo) ==
    /\ pollPc = "awaiting"
    /\ inFlight' = inFlight - 1
    /\ fetched' = Append(fetched, repo)
    /\ updates' = Append(updates, repo.status)
    /\ IF OnUpdateThrows(repo.status)
       THEN /\ pollPc' = "rejected"
            /\ pollError' = ProcessingFailedMessage
            /\ UNCHANGED <<waits, pollResult>>
       ELSE IF IsTerminal(repo.status)
       THEN /\ pollPc' = "resolved"
            /\ pollResult' = repo
            /\ UNCHANGED <<waits, pollError>>
       ELSE /\ pollPc' = "waiting"
            /\ waits' = waits + 1
            /\ UNCHANGED <<pollResult, pollError>>
    /\ HomeOnUpdate(repo.status)
    /\ UNCHANGED <<attempt, maxAttempts, requests, onUpdateKind, abandoned>>
    /\ UNCHANGED <<searchVars, chatVars, fnVars, hookVars>>

PollStatusFailureRetried(err) ==
    /\ pollPc = "awaiting"
    /\ requests < MaxAttemptsBound + 2
    /\ requests' = requests + 1
    /\ UNCHANGED <<pollPc, inFlight, pollError, attempt, maxAttempts, waits,
                   fetched, updates, pollResult, onUpdateKind, abandoned>>
    /\ UNCHANGED <<searchVars, chatVars, fnVars, hookVars, homeVars>>

\* l.501: the awaited status request rejects; nothing catches it, the call
\* rejects with the same error.
PollStatusFailure(err) ==
    /\ pollPc = "awaiting"
    /\ inFlight' = inFlight - 1
    /\ pollPc' = "rejected"
    /\ pollError' = err
    /\ UNCHANGED <<attempt, maxAttempts, requests, waits, fetched, updates,
                   pollResult, onUpdateKind, abandoned>>
    /\ UNCHANGED <<searchVars, chatVars, fnVars, hookVars, homeVars>>

PollTimerFiresAsInterval ==
    /\ pollPc \in {"awaiting", "waiting"}
    /\ requests < MaxAttemptsBound + 2
    /\ attempt' = attempt + 1
    /\ pollPc' = "awaiting"
    /\ inFlight' = inFlight + 1
    /\ requests' = requests + 1
    /\ UNCHANGED <<pollError, maxAttempts, waits, fetched, updates, pollResult,
                   onUpdateKind, abandoned>>
    /\ UNCHANGED <<searchVars, chatVars, fnVars, hookVars, homeVars>>

\* l.508-510, then l.500: the interval timer fires, attempt is incremented
\* and the loop head runs.
PollTimerFires ==
    /\ pollPc = "waiting"
    /\ attempt' = attempt + 1
    /\ PollLoopHead(attempt + 1)
    /\ UNCHANGED <<maxAttempts, waits, fetched, updates, pollResult, onUpdateKind, abandoned>>
    /\ UNCHANGED <<searchVars, chatVars, fnVars, hookVars, homeVars>>

\* The caller stops tracking while the call waits between two attempts (the
\* Home page that started it at frontend/lib/api/search.ts l.287 is torn
\* down). pollRepositoryStatus takes no signal and returns no handle, and
\* the timer of l.508 is held by nothing but its own promise: the call is
\* left as it is.
PollAbandon ==
    /\ pollPc = "waiting"
    /\ ~abandoned
    /\ abandoned' = TRUE
    /\ UNCHANGED <<pollPc, attempt, maxAttempts, inFlight, requests, waits,
                   fetched, updates, pollResult, pollError, onUpdateKind>>
    /\ UNCHANGED <<searchVars, chatVars, fnVars, hookVars, homeVars>>

PollInit ==
    /\ pollPc = "init"
    /\ attempt = 0
    /\ maxAttempts \in 0..MaxAttemptsBound
    /\ inFlight = 0
    /\ requests = 0
    /\ waits = 0
    /\ fetched = <<>>
    /\ updates = <<>>
    /\ pollResult = Null
    /\ pollError = Null
    /\ onUpdateKind \in {"plain", "home"}
    /\ abandoned = FALSE

PollNext ==
    \/ PollCall
    \/ \E st \in Statuses : PollStatusResponse(Repo(st))
    \/ \E err \in TransportFailures : PollStatusFailure(err)
    \/ PollTimerFires
    \/ PollAbandon

\* The poller is not in use.
PollIdle ==
    /\ pollPc = "init"
    /\ attempt = 0
    /\ maxAttempts = 0
    /\ inFlight = 0
    /\ requests = 0
    /\ waits = 0
    /\ fetched = <<>>
    /\ updates = <<>>
    /\ pollResult = Null
    /\ pollError = Null
    /\ onUpdateKind = "plain"
    /\ abandoned = FALSE

(***************************************************************************)
(*                            useCodeSearch                                *)
(***************************************************************************)

\* Most search executions (requests) of one hook instance the model follows.
MaxExecs == 2

\* Highest page number the model navigates to.
MaxPage == 2

Undefined == "undefined"

\* A query text is a sequence of characters; these are the texts the model
\* puts in the input box: empty, whitespace only, and one with text and a
\* trailing space.
QueryTexts == {<<>>, <<" ">>, <<"b", " ">>}

\* String.prototype.trim (l.53)
RECURSIVE TrimStart(_)
TrimStart(s) == IF s # <<>> /\ Head(s) = " " THEN TrimStart(Tail(s)) ELSE s

RECURSIVE TrimEnd(_)
TrimEnd(s) ==
    IF s # <<>> /\ s[Len(s)] = " " THEN TrimEnd(SubSeq(s, 1, Len(s) - 1)) ELSE s

Trim(s) == TrimEnd(TrimStart(s))

SearchModes == {"auto", "keyword"}

NoFilters == [lang |-> Undefined]

FilterSets == {NoFilters, [lang |-> "python"]}

\* A property read on a JavaScript object: undefined when the property is absent.
Get(obj, field) == IF field \in DOMAIN obj THEN obj[field] ELSE Undefined

\* The body the backend answers execution number n with (GET /repos/{id}/search):
\* snake-cased wire fields; every answer is distinguishable from the others.
WireResponse(n) ==
    [results |-> <<[file_id |-> n]>>, total_results |-> n, latency_ms |-> 10 + n]

\* lib/api.ts searchApi.search (the module '../api' that useCodeSearch.ts
\* imports): resolves with response.data as received.
SearchApiSearch(n) == WireResponse(n)

\* The errors a search request rejects with.
SearchFailures == { [message |-> "Network Error"] }

\* l.76: err.response?.data?.detail || err.message || 'Search failed'
SearchErrorMessage(err) ==
    LET detail == IF "response" \in DOMAIN err THEN Get(err.response.data, "detail")
                  ELSE Undefined
        message == Get(err, "message")
    IN IF detail # Undefined THEN detail
       ELSE IF message # Undefined THEN message
       ELSE "Search failed"

NoRequest == [q |-> <<>>, page |-> 0, mode |-> Undefined, filters |-> NoFilters,
              coalesced |-> 0]

\* lib/api.ts searchApi.search, l.460-466 of part_000: the parameters of the
\* GET request, with the || fallbacks of mode and page.
SearchParams(q, page, md, flt) ==
    [q |-> q,
     page |-> IF page # 0 THEN page ELSE 1,
     mode |-> IF md # Undefined THEN md ELSE "auto",
     filters |-> flt]

SearchCallNoEmptyCheck(searchQuery, page, md, flt, trigger) ==
    LET q == Trim(searchQuery)
    IN /\ Len(execs) < MaxExecs
       /\ isLoading' = TRUE
       /\ error' = Null
       /\ execs' = Append(execs, "inflight")
       /\ lastRequest' = SearchParams(q, page, md, flt) @@
              [coalesced |-> IF trigger = "auto" THEN windowChanges ELSE 0]
       /\ UNCHANGED <<results, totalResults>>

\* l.40-70: search(searchQuery, searchOptions) up to its suspension at the
\* await. `page`, `md`, `flt` are the option values after the || fallbacks
\* of l.66-68; `trigger` names the caller (the request of the auto-search
\* effect is logged with the number of query changes it coalesces). An empty trimmed query clears the
\* results and returns; any other issues one request.
SearchCall(searchQuery, page, md, flt, trigger) ==
    LET q == Trim(searchQuery)
    IN IF q = <<>>
       THEN /\ results' = <<>>
            /\ totalResults' = 0
            /\ UNCHANGED <<isLoading, error, execs, lastRequest>>
       ELSE /\ Len(execs) < MaxExecs
            /\ isLoading' = TRUE
            /\ error' = Null
            /\ execs' = Append(execs, "inflight")
            /\ lastRequest' = SearchParams(q, page, md, flt) @@
                   [coalesced |-> IF trigger = "auto" THEN windowChanges ELSE 0]
            /\ UNCHANGED <<results, totalResults>>

PageOptionStale(page) == currentPage

\* l.68: searchOptions?.page || currentPage
PageOption(page) == IF page # 0 THEN page ELSE currentPage

\* The search page calls search() with the current query (no options).
ManualSearch ==
    /\ mounted
    /\ SearchCall(query, currentPage, mode, filters, "search")
    /\ UNCHANGED <<mounted, autoSearch, query, latency, currentPage, mode, filters,
                   debouncedQuery, debouncePending, windowChanges>>
    /\ UNCHANGED <<pollVars, chatVars, fnVars, hookVars, homeVars>>

\* l.93-97
NextPage ==
    /\ mounted
    /\ currentPage < MaxPage
    /\ currentPage' = currentPage + 1
    /\ SearchCall(query, PageOption(currentPage + 1), mode, filters, "nextPage")
    /\ UNCHANGED <<mounted, autoSearch, query, latency, mode, filters,
                   debouncedQuery, debouncePending, windowChanges>>
    /\ UNCHANGED <<pollVars, chatVars, fnVars, hookVars, homeVars>>

\* l.99-105
PrevPage ==
    /\ mounted
    /\ IF currentPage > 1
       THEN /\ currentPage' = currentPage - 1
            /\ SearchCall(query, PageOption(currentPage - 1), mode, filters, "prevPage")
       ELSE UNCHANGED <<currentPage, results, totalResults, isLoading, error, execs,
                        lastRequest>>
    /\ UNCHANGED <<mounted, autoSearch, query, latency, mode, filters,
                   debouncedQuery, debouncePending, windowChanges>>
    /\ UNCHANGED <<pollVars, chatVars, fnVars, hookVars, homeVars>>

\* l.107-110
GoToPage(page) ==
    /\ mounted
    /\ currentPage' = page
    /\ SearchCall(query, PageOption(page), mode, filters, "goToPage")
    /\ UNCHANGED <<mounted, autoSearch, query, latency, mode, filters,
                   debouncedQuery, debouncePending, windowChanges>>
    /\ UNCHANGED <<pollVars, chatVars, fnVars, hookVars, homeVars>>

\* l.112-116
UpdateFilters(newFilters) ==
    /\ mounted
    /\ filters' = newFilters
    /\ currentPage' = 1
    /\ SearchCall(query, PageOption(1), mode, newFilters, "setFilters")
    /\ UNCHANGED <<mounted, autoSearch, query, latency, mode,
                   debouncedQuery, debouncePending, windowChanges>>
    /\ UNCHANGED <<pollVars, chatVars, fnVars, hookVars, homeVars>>

\* l.118-122
UpdateMode(newMode) ==
    /\ mounted
    /\ mode' = newMode
    /\ currentPage' = 1
    /\ SearchCall(query, PageOption(1), newMode, filters, "setMode")
    /\ UNCHANGED <<mounted, autoSearch, query, latency, filters,
                   debouncedQuery, debouncePending, windowChanges>>
    /\ UNCHANGED <<pollVars, chatVars, fnVars, hookVars, homeVars>>

AutoSearchEffectEveryRender(changed, dq) ==
    IF autoSearch /\ dq # <<>>
    THEN SearchCall(dq, currentPage, mode, filters, "auto")
    ELSE UNCHANGED <<results, totalResults, isLoading, error, execs, lastRequest>>

\* l.86-91: the auto-search effect, run after a render in which one of its
\* dependencies changed (`changed`), with the debounced query `dq` of that render.
AutoSearchEffect(changed, dq) ==
    IF changed /\ autoSearch /\ dq # <<>>
    THEN SearchCall(dq, currentPage, mode, filters, "auto")
    ELSE UNCHANGED <<results, totalResults, isLoading, error, execs, lastRequest>>

\* The first render: the effects run once.
Mount ==
    /\ ~mounted
    /\ mounted' = TRUE
    /\ AutoSearchEffect(TRUE, debouncedQuery)
    /\ UNCHANGED <<autoSearch, query, latency, currentPage, mode, filters,
                   debouncedQuery, debouncePending, windowChanges>>
    /\ UNCHANGED <<pollVars, chatVars, fnVars, hookVars, homeVars>>

\* useDebounce(query, delay): a change of the value restarts the timer.
DebounceRestart ==
    /\ debouncePending' = TRUE
    /\ windowChanges' = IF ~debouncePending THEN 1 ELSE 2

\* setQuery(v) from the input box; the render that follows re-runs
\* useDebounce (l.38) and the auto-search effect, whose dependencies
\* (debouncedQuery, options.autoSearch) are those of l.91.
SetQuery(v) ==
    /\ mounted
    /\ v # query
    /\ query' = v
    /\ DebounceRestart
    /\ AutoSearchEffect(FALSE, debouncedQuery)
    /\ UNCHANGED <<mounted, autoSearch, latency, currentPage, mode, filters,
                   debouncedQuery>>
    /\ UNCHANGED <<pollVars, chatVars, fnVars, hookVars, homeVars>>

\* useDebounce: the timer elapses and the debounced value becomes the
\* current one; if it changed, the render that follows runs the effect.
DebounceElapses ==
    /\ mounted
    /\ debouncePending
    /\ debouncePending' = FALSE
    /\ windowChanges' = 0
    /\ debouncedQuery' = query
    /\ AutoSearchEffect(query # debouncedQuery, query)
    /\ UNCHANGED <<mounted, autoSearch, query, latency, currentPage, mode, filters>>
    /\ UNCHANGED <<pollVars, chatVars, fnVars, hookVars, homeVars>>

InFlightExecs == {n \in 1..Len(execs) : execs[n] = "inflight"}

\* l.72-74 and l.82: the request of execution n fulfils.
SearchFulfilled(n) ==
    /\ n \in InFlightExecs
    /\ LET response == SearchApiSearch(n)
       IN /\ results' = Get(response, "results")
          /\ totalResults' = Get(response, "totalResults")
          /\ latency' = Get(response, "latencyMs")
    /\ isLoading' = FALSE
    /\ execs' = [execs EXCEPT ![n] = "fulfilled"]
    /\ lastRequest' = IF n = Len(execs) THEN NoRequest ELSE lastRequest
    /\ UNCHANGED <<mounted, autoSearch, query, error, currentPage, mode, filters,
                   debouncedQuery, debouncePending, windowChanges>>
    /\ UNCHANGED <<pollVars, chatVars, fnVars, hookVars, homeVars>>

SearchRejectedKeepsResults(n, err) ==
    /\ n \in InFlightExecs
    /\ error' = SearchErrorMessage(err)
    /\ isLoading' = FALSE
    /\ execs' = [execs EXCEPT ![n] = "rejected"]
    /\ lastRequest' = IF n = Len(execs) THEN NoRequest ELSE lastRequest
    /\ UNCHANGED <<mounted, autoSearch, query, latency, currentPage, mode, filters,
                   debouncedQuery, debouncePending, windowChanges, results,
                   totalResults>>
    /\ UNCHANGED <<pollVars, chatVars, fnVars, hookVars, homeVars>>

\* l.75-82: the request of execution n rejects with err; the catch block
\* stores the message and clears the results, and rethrows nothing.
SearchRejected(n, err) ==
    /\ n \in InFlightExecs
    /\ error' = SearchErrorMessage(err)
    /\ results' = <<>>
    /\ totalResults' = 0
    /\ isLoading' = FALSE
    /\ execs' = [execs EXCEPT ![n] = "rejected"]
    /\ lastRequest' = IF n = Len(execs) THEN NoRequest ELSE lastRequest
    /\ UNCHANGED <<mounted, autoSearch, query, latency, currentPage, mode, filters,
                   debouncedQuery, debouncePending, windowChanges>>
    /\ UNCHANGED <<pollVars, chatVars, fnVars, hookVars, homeVars>>

\* l.27-35: the initial state of the hook (initialQuery '', page 1, mode
\* AUTO, no filters), for either value of options.autoSearch.
SearchInit ==
    /\ mounted = FALSE
    /\ autoSearch \in BOOLEAN
    /\ query = <<>>
    /\ results = <<>>
    /\ totalResults = 0
    /\ isLoading = FALSE
    /\ error = Null
    /\ latency = 0
    /\ currentPage = 1
    /\ mode = "auto"
    /\ filters = NoFilters
    /\ debouncedQuery = <<>>
    /\ debouncePending = FALSE
    /\ windowChanges = 0
    /\ execs = <<>>
    /\ lastRequest = NoRequest

\* The hook is not in use.
SearchIdle ==
    /\ mounted = FALSE
    /\ autoSearch = FALSE
    /\ query = <<>>
    /\ results = <<>>
    /\ totalResults = 0
    /\ isLoading = FALSE
    /\ error = Null
    /\ latency = 0
    /\ currentPage = 1
    /\ mode = "auto"
    /\ filters = NoFilters
    /\ debouncedQuery = <<>>
    /\ debouncePending = FALSE
    /\ windowChanges = 0
    /\ execs = <<>>
    /\ lastRequest = NoRequest

SearchNext ==
    \/ Mount
    \/ \E v \in QueryTexts : SetQuery(v)
    \/ DebounceElapses
    \/ ManualSearch
    \/ NextPage
    \/ PrevPage
    \/ \E page \in 0..MaxPage : GoToPage(page)
    \/ \E f \in FilterSets : UpdateFilters(f)
    \/ \E m \in SearchModes : UpdateMode(m)
    \/ \E n \in 1..Len(execs) : SearchFulfilled(n)
    \/ \E n \in 1..Len(execs), err \in SearchFailures : SearchRejected(n, err)

(***************************************************************************)
(*       Functions of the client library, applied to one argument:         *)
(*   lib/api/search.ts transformSearchResult and searchApi.search,         *)
(*   lib/utils/errorHandler.ts extractErrorMessage, and the interceptors   *)
(*   of lib/api.ts.                                                        *)
(***************************************************************************)

\* JavaScript values: a record with one field, named after the kind of the
\* value and holding it. A string is the sequence of its pieces (characters
\* or words); an object is the sequence of its members in insertion order.
JUndef == [undefined |-> 0]

JNull == [null |-> 0]

JNaN == [NaN |-> 0]

JNum(n) == [number |-> n]

JStr(s) == [string |-> s]

JBool(b) == [boolean |-> b]

JArr(a) == [array |-> a]

JObj(members) == [object |-> members]

Member(k, x) == [k |-> k, x |-> x]

Kind(x) == CHOOSE kind \in DOMAIN x : TRUE

Val(x) == x[Kind(x)]

\* typeof x
TypeOf(x) ==
    CASE Kind(x) \in {"number", "NaN"} -> "number"
      [] Kind(x) \in {"null", "array", "object"} -> "object"
      [] OTHER -> Kind(x)

\* The boolean a value converts to (in if, ||, !).
Truthy(x) ==
    CASE Kind(x) \in {"undefined", "null", "NaN"} -> FALSE
      [] Kind(x) = "number" -> Val(x) # 0
      [] Kind(x) = "string" -> Val(x) # <<>>
      [] Kind(x) = "boolean" -> Val(x)
      [] OTHER -> TRUE

\* x === null || x === undefined
Nullish(x) == Kind(x) \in {"undefined", "null"}

\* a || b
OrElse(a, b) == IF Truthy(a) THEN a ELSE b

\* a ?? b
Coalesce(a, b) == IF Nullish(a) THEN b ELSE a

\* x[k] for an object x: the member named k (the last one written), or
\* undefined. Values of the other kinds the model reads members of have none.
HasMember(x, k) == Kind(x) = "object" /\ \E i \in 1..Len(Val(x)) : Val(x)[i].k = k

Prop(x, k) ==
    IF HasMember(x, k)
    THEN Val(x)[CHOOSE i \in 1..Len(Val(x)) :
                 Val(x)[i].k = k /\ \A j \in (i + 1)..Len(Val(x)) : Val(x)[j].k # k].x
    ELSE JUndef

Digits == <<"0", "1", "2", "3", "4", "5", "6", "7", "8", "9">>

IsDigit(c) == \E d \in 1..10 : Digits[d] = c

DigitValue(c) == (CHOOSE d \in 1..10 : Digits[d] = c) - 1

RECURSIVE SkipSpaces(_)
SkipSpaces(s) == IF s # <<>> /\ Head(s) = " " THEN SkipSpaces(Tail(s)) ELSE s

RECURSIVE DigitPrefix(_)
DigitPrefix(s) ==
    IF s # <<>> /\ IsDigit(Head(s)) THEN <<Head(s)>> \o DigitPrefix(Tail(s)) ELSE <<>>

RECURSIVE DecimalValue(_)
DecimalValue(ds) ==
    IF ds = <<>> THEN 0
    ELSE 10 * DecimalValue(SubSeq(ds, 1, Len(ds) - 1)) + DigitValue(ds[Len(ds)])

\* parseInt(s, 10): leading white space is skipped, a sign is read, then the
\* longest run of digits; what follows them is ignored; NaN without a digit.
ParseInt(s) ==
    LET body == SkipSpaces(s)
        signed == body # <<>> /\ Head(body) \in {"-", "+"}
        ds == DigitPrefix(IF signed THEN Tail(body) ELSE body)
    IN IF ds = <<>> THEN JNaN
       ELSE JNum(IF signed /\ Head(body) = "-" THEN 0 - DecimalValue(ds)
                 ELSE DecimalValue(ds))

\* Number(s) is NaN, for a string s: not for the empty or blank string, nor
\* for an optionally signed run of digits between white space.
StringIsNaN(s) ==
    LET body == Trim(s)
        unsigned == IF body # <<>> /\ Head(body) \in {"-", "+"} THEN Tail(body) ELSE body
    IN body # <<>> /\ (unsigned = <<>> \/ DigitPrefix(unsigned) # unsigned)

\* isNaN(x): whether Number(x) is NaN. An array converts through its text:
\* '' for [], the text of its element for one element.
IsNaN(x) ==
    CASE Kind(x) \in {"undefined", "NaN"} -> TRUE
      [] Kind(x) \in {"null", "number", "boolean"} -> FALSE
      [] Kind(x) = "string" -> StringIsNaN(Val(x))
      [] Kind(x) = "array" ->
            IF Val(x) = <<>> THEN FALSE
            ELSE IF Len(Val(x)) > 1 THEN TRUE
            ELSE CASE Kind(Val(x)[1]) \in {"undefined", "null", "number"} -> FALSE
                   [] Kind(Val(x)[1]) = "string" -> StringIsNaN(Val(Val(x)[1]))
                   [] OTHER -> TRUE
      [] OTHER -> TRUE

Returns(x) == [kind |-> "return", value |-> x]

Throws(name) == [kind |-> "throw", value |-> JStr(<<name>>)]

\* lib/api/search.ts l.19-27: the fileId computed from apiResult.file_id.
FileId(raw) ==
    LET parsed == IF TypeOf(raw) = "string" THEN ParseInt(Val(raw)) ELSE raw
    IN IF IsNaN(parsed) \/ Kind(parsed) = "null" \/ Kind(parsed) = "undefined"
       THEN JNum(0)
       ELSE parsed

\* lib/api/search.ts l.13-46: transformSearchResult(apiResult). Reading a
\* member of null or undefined (l.16) throws.
TransformSearchResult(apiResult) ==
    IF Nullish(apiResult) THEN Throws("TypeError")
    ELSE Returns(
      [chunkId |-> Coalesce(Prop(apiResult, "chunk_id"), JUndef),
       fileId |-> FileId(Prop(apiResult, "file_id")),
       filePath |-> OrElse(Prop(apiResult, "file_path"), JStr(<<>>)),
       snippet |-> OrElse(Prop(apiResult, "snippet"), JStr(<<>>)),
       highlightedSnippet |-> OrElse(Prop(apiResult, "highlighted_snippet"),
                                     OrElse(Prop(apiResult, "snippet"), JStr(<<>>))),
       startLine |-> OrElse(Prop(apiResult, "start_line"), JNum(0)),
       endLine |-> OrElse(Prop(apiResult, "end_line"), JNum(0)),
       matchType |-> IF Kind(Prop(apiResult, "match_type")) = "array"
                     THEN Prop(apiResult, "match_type") ELSE JArr(<<>>),
       relevanceScore |-> OrElse(Prop(apiResult, "relevance_score"), JNum(0)),
       semanticScore |-> Coalesce(Prop(apiResult, "semantic_score"), JUndef),
       keywordScore |-> Coalesce(Prop(apiResult, "keyword_score"), JUndef),
       symbolScore |-> Coalesce(Prop(apiResult, "symbol_score"), JUndef),
       language |-> OrElse(Prop(apiResult, "language"), JStr(<<"text">>)),
       symbolName |-> Coalesce(Prop(apiResult, "symbol_name"), JUndef),
       symbolType |-> Coalesce(Prop(apiResult, "symbol_type"), JUndef)])

\* Array.prototype.map(transformSearchResult) on the items of an array:
\* the first exception ends it.
MapTransform(items) ==
    IF \E i \in 1..Len(items) : TransformSearchResult(items[i]).kind = "throw"
    THEN Throws("TypeError")
    ELSE Returns([i \in 1..Len(items) |-> TransformSearchResult(items[i]).value])

\* lib/api/search.ts l.104-117: the SearchResponse searchApi.search builds
\* from response.data. Calling map on a results member that is not an
\* array throws.
NormalizeSearchResponse(apiData) ==
    IF Kind(Prop(apiData, "results")) # "array" \/ MapTransform(Val(Prop(apiData, "results"))).kind = "throw"
    THEN Throws("TypeError")
    ELSE Returns(
      [query |-> Prop(apiData, "query"),
       mode |-> Prop(apiData, "mode"),
       totalResults |-> Prop(apiData, "total_results"),
       page |-> Prop(apiData, "page"),
       perPage |-> Prop(apiData, "per_page"),
       totalPages |-> Prop(apiData, "total_pages"),
       results |-> MapTransform(Val(Prop(apiData, "results"))).value,
       latencyMs |-> Prop(apiData, "latency_ms"),
       filtersApplied |-> Prop(apiData, "filters_applied"),
       suggestions |-> Prop(apiData, "suggestions")])

RECURSIVE ToText(_)
RECURSIVE ArrayJoin(_, _)
\* String(x), as in a template literal.
ToText(x) ==
    CASE Kind(x) = "string" -> Val(x)
      [] Kind(x) = "number" -> <<ToString(Val(x))>>
      [] Kind(x) = "boolean" -> IF Val(x) THEN <<"true">> ELSE <<"false">>
      [] Kind(x) = "array" -> ArrayJoin(Val(x), ",")
      [] Kind(x) = "object" -> <<"[object Object]">>
      [] OTHER -> <<Kind(x)>>

\* Array.prototype.join(sep): null and undefined elements give ''.
ArrayJoin(elems, sep) ==
    IF elems = <<>> THEN <<>>
    ELSE (IF Nullish(Head(elems)) THEN <<>> ELSE ToText(Head(elems)))
         \o (IF Len(elems) > 1 THEN <<sep>> \o ArrayJoin(Tail(elems), sep) ELSE <<>>)

RECURSIVE Stringify(_)
RECURSIVE StringifyMembers(_)
RECURSIVE StringifyElems(_)
\* JSON.stringify(x) for an object or an array and what it contains.
Stringify(x) ==
    CASE Kind(x) = "string" -> <<"\"">> \o Val(x) \o <<"\"">>
      [] Kind(x) = "number" -> <<ToString(Val(x))>>
      [] Kind(x) = "boolean" -> IF Val(x) THEN <<"true">> ELSE <<"false">>
      [] Kind(x) = "array" -> <<"[">> \o StringifyElems(Val(x)) \o <<"]">>
      [] Kind(x) = "object" -> <<"{">> \o StringifyMembers(Val(x)) \o <<"}">>
      [] OTHER -> <<"null">>

StringifyMembers(members) ==
    IF members = <<>> THEN <<>>
    ELSE IF Kind(Head(members).x) = "undefined" THEN StringifyMembers(Tail(members))
    ELSE <<"\"", Head(members).k, "\":">> \o Stringify(Head(members).x)
         \o (IF StringifyMembers(Tail(members)) = <<>> THEN <<>>
             ELSE <<",">> \o StringifyMembers(Tail(members)))

StringifyElems(elems) ==
    IF elems = <<>> THEN <<>>
    ELSE Stringify(Head(elems))
         \o (IF Len(elems) > 1 THEN <<",">> \o StringifyElems(Tail(elems)) ELSE <<>>)

\* part_000 l.22: err.loc?.slice(1).join('.') throws for an entry that is
\* null or undefined (err.loc) and for a loc that is neither absent nor an
\* array (a string has slice but its result no join; the others no slice).
EntryThrows(entry) ==
    \/ Nullish(entry)
    \/ ~Nullish(Prop(entry, "loc")) /\ Kind(Prop(entry, "loc")) # "array"

\* The location without slice(1): the whole path.
EntryLocationWhole(entry) ==
    LET loc == Prop(entry, "loc")
        joined == IF Nullish(loc) THEN <<>> ELSE ArrayJoin(Val(loc), ".")
    IN IF joined = <<>> THEN <<"field">> ELSE joined

\* part_000 l.22: err.loc?.slice(1).join('.') || 'field'
EntryLocation(entry) ==
    LET loc == Prop(entry, "loc")
        joined == IF Nullish(loc) THEN <<>>
                  ELSE ArrayJoin(SubSeq(Val(loc), 2, Len(Val(loc))), ".")
    IN IF joined = <<>> THEN <<"field">> ELSE joined

\* part_000 l.23: `${location}: ${err.msg}`
EntryText(entry) == EntryLocation(entry) \o <<": ">> \o ToText(Prop(entry, "msg"))

RECURSIVE JoinEntries(_)
JoinEntries(entries) ==
    IF entries = <<>> THEN <<>>
    ELSE EntryText(Head(entries))
         \o (IF Len(entries) > 1 THEN <<"; ">> \o JoinEntries(Tail(entries)) ELSE <<>>)

\* part_000 l.20-26: the message of a validation-array detail.
DetailArrayMessage(entries) ==
    IF \E i \in 1..Len(entries) : EntryThrows(entries[i])
    THEN Throws("TypeError")
    ELSE Returns(JStr(JoinEntries(entries)))

UnknownErrorText == JStr(<<"An unknown error occurred">>)

UnexpectedErrorText == JStr(<<"An unexpected error occurred">>)

\* part_000 l.49-61: what is left when the response body gave nothing.
ExtractFromError(err) ==
    IF Truthy(Prop(err, "message")) THEN Returns(Prop(err, "message"))
    ELSE IF Truthy(Prop(err, "msg")) THEN Returns(Prop(err, "msg"))
    ELSE Returns(UnexpectedErrorText)

\* extractErrorMessage with error.message looked at before the response
\* body.
ExtractErrorMessageMessageFirst(err) ==
    LET data == Prop(Prop(err, "response"), "data")
        detail == Prop(data, "detail")
    IN IF ~Truthy(err) THEN Returns(UnknownErrorText)
       ELSE IF TypeOf(err) = "string" THEN Returns(err)
       ELSE IF Truthy(Prop(err, "message")) THEN Returns(Prop(err, "message"))
       ELSE IF Truthy(data)
       THEN IF Kind(detail) = "array" THEN DetailArrayMessage(Val(detail))
            ELSE IF TypeOf(detail) = "string" THEN Returns(detail)
            ELSE IF Truthy(detail) /\ TypeOf(detail) = "object"
            THEN Returns(OrElse(Prop(detail, "message"),
                                OrElse(Prop(detail, "msg"), JStr(Stringify(detail)))))
            ELSE IF Truthy(Prop(data, "message")) THEN Returns(Prop(data, "message"))
            ELSE IF TypeOf(data) = "object" THEN Returns(JStr(Stringify(data)))
            ELSE ExtractFromError(err)
       ELSE ExtractFromError(err)

\* lib/utils/errorHandler.ts, part_000 l.7-62: extractErrorMessage(error),
\* with how it completes.
ExtractErrorMessage(err) ==
    LET data == Prop(Prop(err, "response"), "data")
        detail == Prop(data, "detail")
    IN IF ~Truthy(err) THEN Returns(UnknownErrorText)
       ELSE IF TypeOf(err) = "string" THEN Returns(err)
       ELSE IF Truthy(data)
       THEN IF Kind(detail) = "array" THEN DetailArrayMessage(Val(detail))
            ELSE IF TypeOf(detail) = "string" THEN Returns(detail)
            ELSE IF Truthy(detail) /\ TypeOf(detail) = "object"
            THEN Returns(OrElse(Prop(detail, "message"),
                                OrElse(Prop(detail, "msg"), JStr(Stringify(detail)))))
            ELSE IF Truthy(Prop(data, "message")) THEN Returns(Prop(data, "message"))
            ELSE IF TypeOf(data) = "object" THEN Returns(JStr(Stringify(data)))
            ELSE ExtractFromError(err)
       ELSE ExtractFromError(err)

\* part_000 l.93-109 and l.111-128: the interceptors of the shared axios
\* instance. Each logs and passes on what it was given, a value as a value
\* and an error as a rejection. A log that reads a member of null or
\* undefined throws, which rejects the promise chain with the TypeError.
Fulfilled(x) == [kind |-> "fulfilled", value |-> x]

Rejected(x) == [kind |-> "rejected", value |-> x]

\* l.94-103: in development config.method, config.url, config.data are read.
RequestInterceptor(config, env) ==
    IF env = "development" /\ Nullish(config) THEN Rejected(JStr(<<"TypeError">>))
    ELSE Fulfilled(config)

\* l.104-107
RequestErrorInterceptor(err) == Rejected(err)

\* A response interceptor that unwraps the response.
ResponseInterceptorUnwraps(response, env) == Fulfilled(Prop(response, "data"))

\* l.112-120: in development response.status and response.config.url are read.
ResponseInterceptor(response, env) ==
    IF env = "development" /\ (Nullish(response) \/ Nullish(Prop(response, "config")))
    THEN Rejected(JStr(<<"TypeError">>))
    ELSE Fulfilled(response)

\* l.121-128: error.response?.status, error.config?.url, error.response?.data
\* are read.
ResponseErrorInterceptor(err) ==
    IF Nullish(err) THEN Rejected(JStr(<<"TypeError">>)) ELSE Rejected(err)

\* The values of file_id on the wire; undefined stands for a missing member.
FileIdValues ==
    { JUndef, JNull,
      JStr(<<"4", "2">>), JStr(<<>>), JStr(<<"a", "b">>), JStr(<<"4", "2", "a">>),
      JStr(<<" ", "7">>), JStr(<<"-", "5">>),
      JNum(42), JNum(0), JBool(TRUE), JBool(FALSE),
      JArr(<<>>), JArr(<<JNum(5)>>), JObj(<<>>) }

FileIdMember(fid) == IF fid = JUndef THEN <<>> ELSE <<Member("file_id", fid)>>

\* A result item of the wire response: with every member, with file_id
\* only, or with null for the optional members.
WireItem(kind, fid) ==
    CASE kind = "full" ->
            JObj(<<Member("chunk_id", JNum(3))>> \o FileIdMember(fid) \o
                 <<Member("file_path", JStr(<<"a.py">>)),
                   Member("snippet", JStr(<<"code">>)),
                   Member("highlighted_snippet", JStr(<<"<b>", "code", "</b>">>)),
                   Member("start_line", JNum(1)),
                   Member("end_line", JNum(2)),
                   Member("match_type", JArr(<<JStr(<<"keyword">>)>>)),
                   Member("relevance_score", JNum(1)),
                   Member("semantic_score", JNum(1)),
                   Member("keyword_score", JNum(0)),
                   Member("symbol_score", JNum(0)),
                   Member("language", JStr(<<"python">>)),
                   Member("symbol_name", JStr(<<"f">>)),
                   Member("symbol_type", JStr(<<"function">>))>>)
      [] kind = "bare" -> JObj(FileIdMember(fid))
      [] kind = "nulls" ->
            JObj(FileIdMember(fid) \o
                 <<Member("chunk_id", JNull),
                   Member("file_path", JNull),
                   Member("snippet", JNull),
                   Member("match_type", JNull),
                   Member("language", JNull),
                   Member("symbol_name", JNull)>>)

ItemKinds == {"full", "bare", "nulls"}

TransformInputs == {WireItem(kind, fid) : kind \in ItemKinds, fid \in FileIdValues}

\* Bodies of the search response: complete, or with members missing.
WireBody(kind) ==
    LET item == WireItem("full", JNum(42))
        head == <<Member("query", JStr(<<"q">>)), Member("mode", JStr(<<"auto">>))>>
        total == <<Member("total_results", JNum(1))>>
        paging == <<Member("page", JNum(1)), Member("per_page", JNum(20)),
                    Member("total_pages", JNum(1))>>
        timing == <<Member("latency_ms", JNum(12)),
                    Member("filters_applied", JObj(<<>>))>>
        hints == <<Member("suggestions", JArr(<<>>))>>
    IN CASE kind = "full" ->
               JObj(head \o total \o paging \o <<Member("results", JArr(<<item>>))>>
                    \o timing \o hints)
         [] kind = "no suggestions" ->
               JObj(head \o total \o paging \o <<Member("results", JArr(<<item>>))>>
                    \o timing)
         [] kind = "no total" ->
               JObj(head \o paging \o <<Member("results", JArr(<<item>>))>> \o timing
                    \o hints)
         [] kind = "bare item" ->
               JObj(head \o total \o paging
                    \o <<Member("results", JArr(<<WireItem("bare", JNum(42))>>))>>
                    \o timing \o hints)
         [] kind = "results only" -> JObj(<<Member("results", JArr(<<>>))>>)
         [] kind = "no results" -> JObj(head \o total \o paging \o timing \o hints)

BodyKinds ==
    {"full", "no suggestions", "no total", "bare item", "results only", "no results"}

ResponseInputs == {WireBody(kind) : kind \in BodyKinds}

\* An entry of a validation-array detail.
Entry(loc, msg) == JObj(<<Member("loc", loc), Member("msg", msg)>>)

BodyLoc == JArr(<<JStr(<<"body">>), JStr(<<"name">>)>>)

\* The detail members of the response bodies the model passes.
Details ==
    { JStr(<<"d">>), JStr(<<>>), JNull, JNum(7),
      JArr(<<>>),
      JArr(<<JNull>>),
      JArr(<<JStr(<<"oops">>)>>),
      JArr(<<Entry(BodyLoc, JStr(<<"required">>))>>),
      JArr(<<Entry(JArr(<<JStr(<<"body">>)>>), JStr(<<"x">>))>>),
      JArr(<<Entry(JArr(<<JStr(<<"body">>), JStr(<<"items">>), JNum(0)>>), JStr(<<"x">>))>>),
      JArr(<<JObj(<<Member("msg", JStr(<<"x">>))>>)>>),
      JArr(<<Entry(JStr(<<"body">>), JStr(<<"x">>))>>),
      JArr(<<Entry(BodyLoc, JStr(<<"required">>)),
             Entry(JArr(<<JStr(<<"query">>), JStr(<<"k">>)>>), JStr(<<"too big">>))>>),
      JObj(<<Member("message", JStr(<<"dm">>))>>),
      JObj(<<Member("msg", JStr(<<"dg">>))>>),
      JObj(<<Member("message", JStr(<<"dm">>)), Member("msg", JStr(<<"dg">>))>>),
      JObj(<<Member("code", JNum(1))>>),
      JObj(<<>>) }

\* The response bodies: with a detail, with a detail and a message, with
\* a message only, with neither, and bodies that are not objects.
Bodies ==
    {JObj(<<Member("detail", d)>>) : d \in Details}
    \cup {JObj(<<Member("detail", d), Member("message", JStr(<<"bm">>))>>) : d \in Details}
    \cup { JObj(<<Member("message", JStr(<<"bm">>))>>),
           JObj(<<Member("other", JStr(<<"x">>))>>),
           JObj(<<>>),
           JStr(<<"<html>">>), JStr(<<>>), JArr(<<>>), JNull }

WithResponse(members, body) ==
    JObj(members \o <<Member("response", JObj(<<Member("data", body)>>))>>)

\* What extractErrorMessage is called with.
ErrorInputs ==
    { JUndef, JNull, JStr(<<>>), JStr(<<"boom">>), JNum(0), JNum(5), JBool(FALSE),
      JArr(<<>>), JObj(<<>>),
      JObj(<<Member("message", JStr(<<"m">>))>>),
      JObj(<<Member("msg", JStr(<<"g">>))>>),
      JObj(<<Member("message", JStr(<<>>)), Member("msg", JStr(<<"g">>))>>),
      JObj(<<Member("message", JStr(<<"m">>)), Member("msg", JStr(<<"g">>))>>),
      JObj(<<Member("message", JNum(42))>>),
      JObj(<<Member("response", JNull), Member("message", JStr(<<"m">>))>>) }
    \cup {WithResponse(<<Member("message", JStr(<<"m">>))>>, body) : body \in Bodies}
    \cup {WithResponse(<<>>, body) : body \in Bodies}

InterceptorNames ==
    {"request interceptor", "request error interceptor",
     "response interceptor", "response error interceptor"}

NodeEnvs == {"development", "production"}

\* What axios hands the interceptors: the config of a request,
ConfigInputs ==
    { JObj(<<Member("method", JStr(<<"get">>)), Member("url", JStr(<<"/repos/1">>))>>),
      JObj(<<Member("method", JStr(<<"post">>)), Member("url", JStr(<<"/repos/1/chat">>)),
             Member("data", JObj(<<Member("question", JStr(<<"h">>))>>))>>) }

\* the response to one,
ResponseValueInputs ==
    {JObj(<<Member("status", JNum(200)), Member("config", config),
            Member("data", JObj(<<Member("id", JNum(1))>>))>>) : config \in ConfigInputs}

\* and the error a request failed with: without response, or with one.
ErrorValueInputs ==
    {JObj(<<Member("message", JStr(<<"Network Error">>)), Member("config", config)>>)
        : config \in ConfigInputs}
    \cup {JObj(<<Member("message", JStr(<<"Request failed with status code 422">>)),
                 Member("config", config),
                 Member("response",
                        JObj(<<Member("status", JNum(422)),
                               Member("data", JObj(<<Member("detail", JStr(<<"d">>))>>))>>))>>)
              : config \in ConfigInputs}
    \cup {JObj(<<Member("message", JStr(<<"canceled">>))>>)}

FnCalls ==
    ({"transformSearchResult"} \X TransformInputs)
    \cup ({"searchApi.search"} \X ResponseInputs)
    \cup ({"extractErrorMessage"} \X ErrorInputs)
    \cup ({"request interceptor"} \X ConfigInputs)
    \cup ({"response interceptor"} \X ResponseValueInputs)
    \cup ({"request error interceptor", "response error interceptor"} \X ErrorValueInputs)

NoOutput == [kind |-> "none", value |-> JUndef]

ApplyTransformSearchResult ==
    /\ fnPc = "ready"
    /\ fnName = "transformSearchResult"
    /\ fnOutput' = TransformSearchResult(fnInput)
    /\ fnPc' = "done"
    /\ UNCHANGED <<fnName, fnInput, fnEnv>>
    /\ UNCHANGED <<pollVars, searchVars, chatVars, hookVars, homeVars>>

ApplyNormalizeSearchResponse ==
    /\ fnPc = "ready"
    /\ fnName = "searchApi.search"
    /\ fnOutput' = NormalizeSearchResponse(fnInput)
    /\ fnPc' = "done"
    /\ UNCHANGED <<fnName, fnInput, fnEnv>>
    /\ UNCHANGED <<pollVars, searchVars, chatVars, hookVars, homeVars>>

ApplyExtractErrorMessage ==
    /\ fnPc = "ready"
    /\ fnName = "extractErrorMessage"
    /\ fnOutput' = ExtractErrorMessage(fnInput)
    /\ fnPc' = "done"
    /\ UNCHANGED <<fnName, fnInput, fnEnv>>
    /\ UNCHANGED <<pollVars, searchVars, chatVars, hookVars, homeVars>>

ApplyInterceptor ==
    /\ fnPc = "ready"
    /\ fnName \in InterceptorNames
    /\ fnOutput' = CASE fnName = "request interceptor" -> RequestInterceptor(fnInput, fnEnv)
                     [] fnName = "request error interceptor" -> RequestErrorInterceptor(fnInput)
                     [] fnName = "response interceptor" -> ResponseInterceptor(fnInput, fnEnv)
                     [] fnName = "response error interceptor" -> ResponseErrorInterceptor(fnInput)
    /\ fnPc' = "done"
    /\ UNCHANGED <<fnName, fnInput, fnEnv>>
    /\ UNCHANGED <<pollVars, searchVars, chatVars, hookVars, homeVars>>

\* A function is about to be applied to an argument.
FnInit ==
    /\ \E call \in FnCalls : fnName = call[1] /\ fnInput = call[2]
    /\ fnEnv \in (IF fnName \in InterceptorNames THEN NodeEnvs ELSE {"production"})
    /\ fnPc = "ready"
    /\ fnOutput = NoOutput

\* No function is applied.
FnIdle ==
    /\ fnName = "none"
    /\ fnInput = JUndef
    /\ fnEnv = "production"
    /\ fnPc = "idle"
    /\ fnOutput = NoOutput

FnNext ==
    \/ ApplyTransformSearchResult
    \/ ApplyNormalizeSearchResponse
    \/ ApplyExtractErrorMessage
    \/ ApplyInterceptor

(***************************************************************************)
(*                          The chat senders                               *)
(***************************************************************************)

\* Most frames in a response stream the model follows.
MaxFrames == 2

\* 'data: ', the marker of a data line (l.372)
DataPrefix == <<"d", "a", "t", "a", ":", " ">>

NewLine == "\n"

\* U+FFFD, what TextDecoder puts for a malformed byte sequence
Replacement == "U+FFFD"

\* The JSON payloads the backend sends, written as byte sequences: a brace,
\* a letter standing for the "type" member (t token, s sources, d done,
\* e error, x a type the client does not know), the content or message_id,
\* a brace. "c3" "a9" are the two bytes of the character "é". The last
\* payload is cut short: not valid JSON.
Payloads ==
    { <<"{", "t", "a", "}">>,
      <<"{", "t", "c3", "a9", "}">>,
      <<"{", "s", "}">>,
      <<"{", "d", "7", "}">>,
      <<"{", "e", "m", "}">>,
      <<"{", "x", "}">>,
      <<"{", "t", "a">> }

\* One server-sent event: the data line and the blank line that ends it.
Frame(payload) == DataPrefix \o payload \o <<NewLine, NewLine>>

RECURSIVE Concat(_)
Concat(seqs) == IF seqs = <<>> THEN <<>> ELSE Head(seqs) \o Concat(Tail(seqs))

FrameSeqs == UNION {[1..n -> Payloads] : n \in 0..MaxFrames}

\* l.368: decoder.decode(value), without { stream: true }: every chunk is
\* decoded on its own, and a byte sequence left incomplete at the end of
\* the chunk, or a continuation byte at its start, becomes U+FFFD.
RECURSIVE Decode(_)
Decode(bytes) ==
    IF bytes = <<>> THEN <<>>
    ELSE IF Head(bytes) = "c3"
         THEN IF Len(bytes) >= 2 /\ bytes[2] = "a9"
              THEN <<"é">> \o Decode(SubSeq(bytes, 3, Len(bytes)))
              ELSE <<Replacement>> \o Decode(Tail(bytes))
         ELSE IF Head(bytes) = "a9"
              THEN <<Replacement>> \o Decode(Tail(bytes))
              ELSE <<Head(bytes)>> \o Decode(Tail(bytes))

\* l.369: chunk.split('\n'): the pieces between the line feeds, the last
\* piece being what follows the last line feed.
RECURSIVE SplitLines(_, _)
SplitLines(text, piece) ==
    IF text = <<>> THEN <<piece>>
    ELSE IF Head(text) = NewLine
         THEN <<piece>> \o SplitLines(Tail(text), <<>>)
         ELSE SplitLines(Tail(text), Append(piece, Head(text)))

\* l.372: line.startsWith('data: ')
StartsWithData(line) ==
    /\ Len(line) >= Len(DataPrefix)
    /\ SubSeq(line, 1, Len(DataPrefix)) = DataPrefix

NoCalls == <<>>

\* l.375: JSON.parse(data) succeeds iff data is a whole payload.
ParsesAsJson(data) ==
    /\ Len(data) >= 2
    /\ data[1] = "{"
    /\ data[Len(data)] = "}"
    /\ \A i \in 2..(Len(data) - 1) : data[i] \notin {"{", "}"}

\* l.377-390: the callback the switch on event.type invokes, with its
\* argument: none for a type it has no case for.
Dispatch(data) ==
    LET inner == SubSeq(data, 2, Len(data) - 1)
        kind == IF inner = <<>> THEN Undefined ELSE inner[1]
        content == IF inner = <<>> THEN <<>> ELSE Tail(inner)
    IN CASE kind = "t" -> <<[cb |-> "onToken", arg |-> content]>>
         [] kind = "s" -> <<[cb |-> "onSources", arg |-> content]>>
         [] kind = "d" -> <<[cb |-> "onDone", arg |-> content]>>
         [] kind = "e" -> <<[cb |-> "onError", arg |-> content]>>
         [] OTHER -> NoCalls

\* The callbacks of chatStream (l.324-327), and which of them the caller
\* passes throw: none, or all of them.
Callbacks == {"onToken", "onSources", "onDone", "onError"}

ThrowingSets == {{}, Callbacks}

\* l.374-390: the try block of one data line: the calls it makes, and
\* whether it is left by an exception, of JSON.parse or of the callback.
TryBlock(data) ==
    IF ParsesAsJson(data)
    THEN [calls |-> Dispatch(data),
          threw |-> Dispatch(data) # NoCalls /\ Dispatch(data)[1].cb \in throwing]
    ELSE [calls |-> NoCalls, threw |-> TRUE]

\* l.372-394: one line of a chunk: a data line whose payload parses is
\* dispatched, a parse failure is logged, any other line is ignored.
ProcessLine(line) ==
    IF StartsWithData(line)
    THEN TryBlock(SubSeq(line, Len(DataPrefix) + 1, Len(line))).calls
    ELSE NoCalls

\* The for loop if what a callback throws left it.
RECURSIVE ProcessLinesStopAtThrow(_)
ProcessLinesStopAtThrow(lines) ==
    IF lines = <<>> THEN NoCalls
    ELSE IF /\ ProcessLine(Head(lines)) # NoCalls
            /\ ProcessLine(Head(lines))[1].cb \in throwing
         THEN ProcessLine(Head(lines))
         ELSE ProcessLine(Head(lines)) \o ProcessLinesStopAtThrow(Tail(lines))

RECURSIVE ProcessLinesReversed(_)
ProcessLinesReversed(lines) ==
    IF lines = <<>> THEN NoCalls
    ELSE ProcessLinesReversed(Tail(lines)) \o ProcessLine(Head(lines))

RECURSIVE ProcessLinesStopAtMalformed(_)
ProcessLinesStopAtMalformed(lines) ==
    IF lines = <<>> THEN NoCalls
    ELSE IF /\ StartsWithData(Head(lines))
            /\ ~ParsesAsJson(SubSeq(Head(lines), Len(DataPrefix) + 1, Len(Head(lines))))
         THEN NoCalls
         ELSE ProcessLine(Head(lines)) \o ProcessLinesStopAtMalformed(Tail(lines))

\* l.371-395: the for loop over the lines of one chunk.
RECURSIVE ProcessLines(_)
ProcessLines(lines) ==
    IF lines = <<>> THEN NoCalls
    ELSE ProcessLine(Head(lines)) \o ProcessLines(Tail(lines))

\* l.368-395: one chunk, decoded, split and dispatched.
ProcessChunk(bytes) == ProcessLines(SplitLines(Decode(bytes), <<>>))

\* The questions passed to the senders: empty, whitespace only, and one
\* with text.
QuestionTexts == {<<>>, <<" ">>, <<" ", "h">>}

Senders == {"chatStream", "chat", "sendMessage"}

\* !question || !question.trim() (l.303, l.330 of part_000; useChat l.23-30)
IsBlank(q) == q = <<>> \/ Trim(q) = <<>>

\* The ChatMessage the backend answers POST /repos/{id}/chat with.
ReplyMessage == "ChatMessage"

\* The errors api.post rejects with (the interceptors of l.92-129 pass them on).
PostFailures ==
    { JObj(<<Member("message", JStr(<<"Network Error">>))>>),
      JObj(<<Member("message", JStr(<<"Request failed with status code 500">>)),
             Member("response",
                    JObj(<<Member("data",
                                  JObj(<<Member("detail", JStr(<<"Internal error">>))>>))>>))>>) }

\* The errors the POST of a chat question rejects with: those, and a 422
\* whose detail array holds a null entry.
ChatPostFailures ==
    PostFailures \cup
    { JObj(<<Member("message", JStr(<<"Request failed with status code 422">>)),
             Member("response",
                    JObj(<<Member("data",
                                  JObj(<<Member("detail", JArr(<<JNull>>))>>))>>))>>) }

\* An Error object with this message.
ErrorObject(message) == JObj(<<Member("message", JStr(<<message>>))>>)

\* The text of a message that is one piece.
PlainText(x) == Val(x)[1]

\* l.342-361: what chatStream throws when the stream cannot be opened:
\* fetch rejects, the response is not ok (with or without a detail in its
\* body), or the response has no body.
OpenFailures ==
    {"Failed to fetch", "Repository not found", "Failed to start streaming chat",
     "Stream not available"}

ChatStreamCallNoValidation ==
    /\ chatPc = "init"
    /\ sender = "chatStream"
    /\ chatPc' = "opening"
    /\ fetches' = Append(fetches, Trim(question))
    /\ UNCHANGED <<sender, question, chatError, sendResult, chatIsLoading, chatHookError>>
    /\ UNCHANGED streamVars
    /\ UNCHANGED <<pollVars, searchVars, fnVars, hookVars, homeVars>>

\* l.321-348: chatStream up to the await of fetch: the question is checked,
\* then the request is issued with the trimmed question.
ChatStreamCall ==
    /\ chatPc = "init"
    /\ sender = "chatStream"
    /\ IF IsBlank(question)
       THEN /\ chatPc' = "rejected"
            /\ chatError' = "Question is required"
            /\ UNCHANGED fetches
       ELSE /\ chatPc' = "opening"
            /\ fetches' = Append(fetches, Trim(question))
            /\ UNCHANGED chatError
    /\ UNCHANGED <<sender, question, sendResult, chatIsLoading, chatHookError>>
    /\ UNCHANGED streamVars
    /\ UNCHANGED <<pollVars, searchVars, fnVars, hookVars, homeVars>>

\* l.350-362: the response is ok and has a body: the reader is acquired.
\* The body is any sequence of at most MaxFrames frames.
ChatStreamOpens(fs) ==
    /\ chatPc = "opening"
    /\ sender = "chatStream"
    /\ chatPc' = "reading"
    /\ acquired' = TRUE
    /\ sent' = fs
    /\ stream' = Concat([i \in 1..Len(fs) |-> Frame(fs[i])])
    /\ UNCHANGED <<pos, cuts, calls, released, aborted, callsAtAbort, throwing>>
    /\ UNCHANGED senderVars
    /\ UNCHANGED <<pollVars, searchVars, fnVars, hookVars, homeVars>>

\* l.342-361: the stream cannot be opened; the call rejects before the try
\* block of l.363.
ChatStreamOpenFails(message) ==
    /\ chatPc = "opening"
    /\ sender = "chatStream"
    /\ chatPc' = "rejected"
    /\ chatError' = message
    /\ UNCHANGED <<sender, question, fetches, sendResult, chatIsLoading, chatHookError>>
    /\ UNCHANGED streamVars
    /\ UNCHANGED <<pollVars, searchVars, fnVars, hookVars, homeVars>>

\* l.297-316: repositoryApi.chat up to the await of api.post.
ChatCall ==
    /\ chatPc = "init"
    /\ sender = "chat"
    /\ IF IsBlank(question)
       THEN /\ chatPc' = "rejected"
            /\ chatError' = "Question is required and must be a non-empty string"
            /\ UNCHANGED fetches
       ELSE /\ chatPc' = "opening"
            /\ fetches' = Append(fetches, Trim(question))
            /\ UNCHANGED chatError
    /\ UNCHANGED <<sender, question, sendResult, chatIsLoading, chatHookError>>
    /\ UNCHANGED streamVars
    /\ UNCHANGED <<pollVars, searchVars, fnVars, hookVars, homeVars>>

\* useChat.ts l.23-30: the message of the error thrown for the question.
SendMessageValidation(q) ==
    IF q = <<>> THEN "Question must be a non-empty string"
    ELSE IF Trim(q) = <<>> THEN "Question cannot be empty"
    ELSE Null

\* useChat.ts l.17-52, up to the await of repositoryApi.chat (whose own
\* check, and createChatRequest's, pass for a question that passed l.23-30):
\* a validation error is caught by l.44-48, stored in error, and null is
\* returned.
SendMessageCall ==
    /\ chatPc = "init"
    /\ sender = "sendMessage"
    /\ IF SendMessageValidation(question) # Null
       THEN /\ chatPc' = "fulfilled"
            /\ chatHookError' =
                   PlainText(ExtractErrorMessage(ErrorObject(SendMessageValidation(question))).value)
            /\ sendResult' = Null
            /\ chatIsLoading' = FALSE
            /\ UNCHANGED fetches
       ELSE /\ chatPc' = "opening"
            /\ chatIsLoading' = TRUE
            /\ chatHookError' = ""
            /\ fetches' = Append(fetches, Trim(question))
            /\ UNCHANGED sendResult
    /\ UNCHANGED <<sender, question, chatError>>
    /\ UNCHANGED streamVars
    /\ UNCHANGED <<pollVars, searchVars, fnVars, hookVars, homeVars>>

\* part_000 l.316-317 and useChat.ts l.42-51: the POST is answered.
ChatPostFulfils ==
    /\ chatPc = "opening"
    /\ sender \in {"chat", "sendMessage"}
    /\ chatPc' = "fulfilled"
    /\ sendResult' = ReplyMessage
    /\ chatIsLoading' = FALSE
    /\ UNCHANGED <<sender, question, fetches, chatError, chatHookError>>
    /\ UNCHANGED streamVars
    /\ UNCHANGED <<pollVars, searchVars, fnVars, hookVars, homeVars>>

\* part_000 l.316 and useChat.ts l.44-51: the POST fails. chat rejects with
\* the error; sendMessage catches it, stores its message and returns null;
\* when extractErrorMessage throws in the catch block (l.46), the finally
\* block runs and sendMessage rejects with what was thrown.
ChatPostRejects(err) ==
    /\ chatPc = "opening"
    /\ sender \in {"chat", "sendMessage"}
    /\ IF sender = "chat"
       THEN /\ chatPc' = "rejected"
            /\ chatError' = PlainText(Prop(err, "message"))
            /\ UNCHANGED <<sendResult, chatIsLoading, chatHookError>>
       ELSE IF ExtractErrorMessage(err).kind = "throw"
       THEN /\ chatPc' = "rejected"
            /\ chatError' = PlainText(ExtractErrorMessage(err).value)
            /\ chatIsLoading' = FALSE
            /\ UNCHANGED <<sendResult, chatHookError>>
       ELSE /\ chatPc' = "fulfilled"
            /\ sendResult' = Null
            /\ chatHookError' = PlainText(ExtractErrorMessage(err).value)
            /\ chatIsLoading' = FALSE
            /\ UNCHANGED chatError
    /\ UNCHANGED <<sender, question, fetches>>
    /\ UNCHANGED streamVars
    /\ UNCHANGED <<pollVars, searchVars, fnVars, hookVars, homeVars>>

\* l.363-366: reader.read() fulfils with done.
ChatStreamEnds ==
    /\ chatPc = "reading"
    /\ pos = Len(stream)
    /\ chatPc' = "fulfilled"
    /\ released' = released + 1
    /\ UNCHANGED <<sent, stream, pos, cuts, calls, acquired, aborted, callsAtAbort, throwing>>
    /\ UNCHANGED senderVars
    /\ UNCHANGED <<pollVars, searchVars, fnVars, hookVars, homeVars>>

\* Where the reads have ended once one more ends after byte p of the stream.
CutsAfter(p) ==
    IF p = Len(stream) \/ stream[p] = NewLine THEN cuts
    ELSE IF stream[p] = "c3" /\ cuts # "other" THEN "char"
    ELSE "other"

\* l.364-396: reader.read() fulfils with the next n bytes of the response,
\* wherever the transport cuts it; the chunk is processed and the loop
\* reads again.
ChatRead(n) ==
    /\ chatPc = "reading"
    /\ n \in 1..(Len(stream) - pos)
    /\ pos' = pos + n
    /\ cuts' = CutsAfter(pos + n)
    /\ calls' = calls \o ProcessChunk(SubSeq(stream, pos + 1, pos + n))
    /\ UNCHANGED <<sent, stream, chatPc, acquired, released, aborted, callsAtAbort, throwing>>
    /\ UNCHANGED senderVars
    /\ UNCHANGED <<pollVars, searchVars, fnVars, hookVars, homeVars>>

ChatReadFailsNoRelease ==
    /\ chatPc = "reading"
    /\ chatPc' = "rejected"
    /\ chatError' = "network error"
    /\ UNCHANGED <<sender, question, fetches, sendResult, chatIsLoading, chatHookError>>
    /\ UNCHANGED streamVars
    /\ UNCHANGED <<pollVars, searchVars, fnVars, hookVars, homeVars>>

\* A read failure that ends the call as if the stream had ended.
ChatReadFailsSwallowed ==
    /\ chatPc = "reading"
    /\ chatPc' = "fulfilled"
    /\ released' = released + 1
    /\ UNCHANGED <<sent, stream, pos, cuts, calls, acquired, aborted, callsAtAbort, throwing>>
    /\ UNCHANGED senderVars
    /\ UNCHANGED <<pollVars, searchVars, fnVars, hookVars, homeVars>>

\* l.364 and l.397-399: reader.read() rejects; the finally block releases
\* the reader and the call rejects.
ChatReadFails ==
    /\ chatPc = "reading"
    /\ chatPc' = "rejected"
    /\ chatError' = "network error"
    /\ released' = released + 1
    /\ UNCHANGED <<sent, stream, pos, cuts, calls, acquired, aborted, callsAtAbort, throwing>>
    /\ UNCHANGED <<sender, question, fetches, sendResult, chatIsLoading, chatHookError>>
    /\ UNCHANGED <<pollVars, searchVars, fnVars, hookVars, homeVars>>

\* l.321-328 and l.342-348: the caller gives up the session while it is
\* streaming. chatStream takes no abort signal and passes none to fetch, and
\* returns no handle: nothing of the session changes. The caller does so
\* before any terminal callback has reached it.
ChatAbort ==
    /\ chatPc = "reading"
    /\ ~aborted
    /\ \A i \in 1..Len(calls) : calls[i].cb \notin {"onDone", "onError"}
    /\ aborted' = TRUE
    /\ callsAtAbort' = Len(calls)
    /\ UNCHANGED <<sent, stream, pos, cuts, calls, acquired, released, throwing>>
    /\ UNCHANGED <<chatPc, senderVars>>
    /\ UNCHANGED <<pollVars, searchVars, fnVars, hookVars, homeVars>>

\* A sender is about to be called with a question; useChat starts with
\* isLoading false and error '' (useChat.ts l.14-15).
ChatInit ==
    /\ sender \in Senders
    /\ question \in QuestionTexts
    /\ chatPc = "init"
    /\ fetches = <<>>
    /\ chatError = Null
    /\ sendResult = Null
    /\ chatIsLoading = FALSE
    /\ chatHookError = ""
    /\ sent = <<>>
    /\ stream = <<>>
    /\ pos = 0
    /\ cuts = "lines"
    /\ calls = NoCalls
    /\ acquired = FALSE
    /\ released = 0
    /\ aborted = FALSE
    /\ callsAtAbort = 0
    /\ throwing \in (IF sender = "chatStream" THEN ThrowingSets ELSE {{}})

\* No chat sender is in use.
ChatIdle ==
    /\ sender = "chat"
    /\ question = <<>>
    /\ chatPc = "idle"
    /\ fetches = <<>>
    /\ chatError = Null
    /\ sendResult = Null
    /\ chatIsLoading = FALSE
    /\ chatHookError = ""
    /\ sent = <<>>
    /\ stream = <<>>
    /\ pos = 0
    /\ cuts = "lines"
    /\ calls = NoCalls
    /\ acquired = FALSE
    /\ released = 0
    /\ aborted = FALSE
    /\ callsAtAbort = 0
    /\ throwing = {}

ChatNext ==
    \/ ChatStreamCall
    \/ \E fs \in FrameSeqs : ChatStreamOpens(fs)
    \/ \E message \in OpenFailures : ChatStreamOpenFails(message)
    \/ ChatCall
    \/ SendMessageCall
    \/ ChatPostFulfils
    \/ \E err \in ChatPostFailures : ChatPostRejects(err)
    \/ \E n \in 1..(Len(stream) - pos) : ChatRead(n)
    \/ ChatStreamEnds
    \/ ChatReadFails
    \/ ChatAbort

(***************************************************************************)
(*                     The interval-driven pollers:                        *)
(*   lib/hooks/useRepository.ts (part_004) and                             *)
(*   lib/hooks/useIndexStatus.ts (part_001 l.1-92), one mounted instance.  *)
(***************************************************************************)

\* The status requests one instance issues in a run of the model.
MaxPolls == 4

Hooks == {"useRepository", "useIndexStatus"}

\* part_004 l.19 and part_001 l.48: the statuses with which polling goes on.
PollingStatuses ==
    IF hook = "useRepository" THEN {"processing", "pending"} ELSE {"pending", "running"}

\* What the backend reports after "pending", before a terminal status.
WorkingStatus == IF hook = "useRepository" THEN "processing" ELSE "running"

\* What fails a status request.
StatusFailures == PostFailures

\* part_004 l.49, part_001 l.53: the cleanup the last run of the polling
\* effect returned clears the timer that run set, if it set one.
EffectCleanup == IF hkInterval > 0 THEN 1 ELSE 0

\* part_004 l.41-50, part_001 l.41-55: the polling effect runs again: the
\* cleanup of its last run, then a new timer when the hook is to poll.
PollingEffect(polls) == (hkInterval - EffectCleanup) + (IF polls THEN 1 ELSE 0)

InFlight == {i \in 1..Len(hkReqs) : hkReqs[i].state = "inflight"}

\* fetchRepository / fetchStatus up to its await: the request goes out and
\* will be answered with the status the backend has now.
IssueStatusRequest(by) ==
    hkReqs' = Append(hkReqs, [snap |-> hkServer, state |-> "inflight", by |-> by])

\* part_004 l.36-39, part_001 l.36-39: the initial fetch of the mounted
\* hook. part_001 l.20-22: fetchStatus returns at once when not enabled.
HookMount ==
    /\ hkMounted = "no"
    /\ hkMounted' = "yes"
    /\ IF hkEnabled THEN IssueStatusRequest("mount") ELSE hkReqs' = hkReqs
    /\ UNCHANGED <<hook, hkServer, hkStatus, hkPolling, hkInterval, hkError, hkLoading,
                   hkTerminalApplied, hkEnabled>>
    /\ UNCHANGED <<pollVars, searchVars, chatVars, fnVars, homeVars>>

\* part_004 l.44-46, part_001 l.49-51: the interval elapses and its
\* callback calls the fetch.
HookTick ==
    /\ hkMounted = "yes"
    /\ hkInterval > 0
    /\ Len(hkReqs) < MaxPolls
    /\ IssueStatusRequest("tick")
    /\ UNCHANGED <<hook, hkMounted, hkServer, hkStatus, hkPolling, hkInterval, hkError,
                   hkLoading, hkTerminalApplied, hkEnabled>>
    /\ UNCHANGED <<pollVars, searchVars, chatVars, fnVars, homeVars>>

\* The component calls the refetch the hook returns.
HookRefetch ==
    /\ hkMounted = "yes"
    /\ hkEnabled
    /\ Len(hkReqs) < MaxPolls
    /\ IssueStatusRequest("refetch")
    /\ UNCHANGED <<hook, hkMounted, hkServer, hkStatus, hkPolling, hkInterval, hkError,
                   hkLoading, hkTerminalApplied, hkEnabled>>
    /\ UNCHANGED <<pollVars, searchVars, chatVars, fnVars, homeVars>>

\* A status request is answered. part_004 l.14-24 and the polling effect
\* l.41-50 (it runs again when isPolling changed); part_001 l.26-27 and the
\* polling effect l.41-55 (it runs again with every status object: the
\* timer is cleared, and set again while the status is pending or running;
\* the hook is enabled, or it had issued no request).
\* React drops the state updates of an unmounted component.
HookResponse(n) ==
    /\ n \in InFlight
    /\ hkReqs' = [hkReqs EXCEPT ![n].state = "fulfilled"]
    /\ IF hkMounted = "yes"
       THEN /\ hkStatus' = hkReqs[n].snap
            /\ hkError' = IF hook = "useRepository" THEN "" ELSE Null
            /\ hkPolling' = IF hook = "useRepository"
                            THEN hkReqs[n].snap \in PollingStatuses
                            ELSE hkPolling
            /\ hkInterval' = IF hook = "useIndexStatus" \/ hkPolling' # hkPolling
                             THEN PollingEffect(hkReqs[n].snap \in PollingStatuses)
                             ELSE hkInterval
            /\ hkLoading' = FALSE
            /\ hkTerminalApplied' =
                   (hkTerminalApplied \/ hkReqs[n].snap \in {"completed", "failed"})
       ELSE UNCHANGED <<hkStatus, hkError, hkPolling, hkInterval, hkLoading,
                        hkTerminalApplied>>
    /\ UNCHANGED <<hook, hkMounted, hkServer, hkEnabled>>
    /\ UNCHANGED <<pollVars, searchVars, chatVars, fnVars, homeVars>>

\* A status request fails. part_004 l.25-32: the error is the extracted
\* message and polling stops; part_001 l.28-33: the error is the detail of
\* the body or a fixed text, and the status is dropped.
HookFailure(n, err) ==
    /\ n \in InFlight
    /\ hkReqs' = [hkReqs EXCEPT ![n].state = "rejected"]
    /\ IF hkMounted = "yes"
       THEN /\ hkError' =
                   IF hook = "useRepository"
                   THEN PlainText(ExtractErrorMessage(err).value)
                   ELSE PlainText(OrElse(Prop(Prop(Prop(err, "response"), "data"), "detail"),
                                         JStr(<<"Failed to fetch status">>)))
            /\ hkStatus' = IF hook = "useRepository" THEN hkStatus ELSE Null
            /\ hkPolling' = FALSE
            /\ hkInterval' = PollingEffect(FALSE)
            /\ hkLoading' = FALSE
       ELSE UNCHANGED <<hkStatus, hkError, hkPolling, hkInterval, hkLoading>>
    /\ UNCHANGED <<hook, hkMounted, hkServer, hkTerminalApplied, hkEnabled>>
    /\ UNCHANGED <<pollVars, searchVars, chatVars, fnVars, homeVars>>

\* The backend moves the repository / job on: transitions are its own.
HookServerAdvances ==
    /\ hkMounted # "no"
    /\ \/ hkServer = "pending" /\ hkServer' = WorkingStatus
       \/ hkServer = WorkingStatus /\ hkServer' \in {"completed", "failed"}
    /\ UNCHANGED <<hook, hkMounted, hkReqs, hkStatus, hkPolling, hkInterval, hkError,
                   hkLoading, hkTerminalApplied, hkEnabled>>
    /\ UNCHANGED <<pollVars, searchVars, chatVars, fnVars, homeVars>>

\* The component unmounts: the cleanup of the polling effect clears the
\* timer (part_004 l.49, part_001 l.53).
HookUnmount ==
    /\ hkMounted = "yes"
    /\ hkMounted' = "gone"
    /\ hkInterval' = hkInterval - EffectCleanup
    /\ UNCHANGED <<hook, hkServer, hkReqs, hkStatus, hkPolling, hkError, hkLoading,
                   hkTerminalApplied, hkEnabled>>
    /\ UNCHANGED <<pollVars, searchVars, chatVars, fnVars, homeVars>>

\* The hook before its first effect: part_004 l.7-10, part_001 l.15-17.
HookInit ==
    /\ hook \in Hooks
    /\ hkEnabled \in (IF hook = "useIndexStatus" THEN BOOLEAN ELSE {TRUE})
    /\ hkMounted = "no"
    /\ hkServer = "pending"
    /\ hkReqs = <<>>
    /\ hkStatus = Null
    /\ hkPolling = FALSE
    /\ hkInterval = 0
    /\ hkError = (IF hook = "useRepository" THEN "" ELSE Null)
    /\ hkLoading = TRUE
    /\ hkTerminalApplied = FALSE

\* No hook is mounted.
HookIdle ==
    /\ hook = "none"
    /\ hkEnabled = FALSE
    /\ hkMounted = "idle"
    /\ hkServer = "pending"
    /\ hkReqs = <<>>
    /\ hkStatus = Null
    /\ hkPolling = FALSE
    /\ hkInterval = 0
    /\ hkError = Null
    /\ hkLoading = FALSE
    /\ hkTerminalApplied = FALSE

HookNext ==
    \/ HookMount
    \/ HookTick
    \/ HookRefetch
    \/ \E n \in 1..Len(hkReqs) : HookResponse(n)
    \/ \E n \in 1..Len(hkReqs), err \in StatusFailures : HookFailure(n, err)
    \/ HookServerAdvances
    \/ HookUnmount

(***************************************************************************)
(*        The ingest flow of the Home page: handleSubmit of app/page.tsx   *)
(*        (frontend/lib/api/search.ts l.254-334)                           *)
(***************************************************************************)

\* A URL is the sequence of its pieces; these are the texts of the input:
\* empty, blank, a URL of another host, a GitHub URL.
GithubUrls ==
    { <<>>, <<" ">>,
      <<"https://", "gitlab.com", "/o/r">>,
      <<"https://", "github.com", "/o/r">> }

\* l.266: githubUrl.includes('github.com')
Includes(text, piece) == \E i \in 1..Len(text) : text[i] = piece

\* What the ingest request fails with.
IngestFailures == PostFailures

\* l.312-326: the message the catch block shows for err.
HomeErrorMessage(err) ==
    LET detail == Prop(Prop(Prop(err, "response"), "data"), "detail")
        message == Prop(err, "message")
    IN IF Truthy(detail) THEN detail
       ELSE IF message = JStr(<<TimeoutMessage>>)
       THEN JStr(<<"Repository processing is taking longer than expected. Please check back later.">>)
       ELSE IF Truthy(message) THEN message
       ELSE JStr(<<"Failed to ingest repository. Please try again.">>)

\* l.328-332: the state the catch block leaves.
HomeCatch(err) ==
    /\ homeError' = PlainText(HomeErrorMessage(err))
    /\ homeIsLoading' = FALSE
    /\ currentStep' = "idle"
    /\ progress' = 0
    /\ repoId' = JNull
    /\ homePc' = "settled"

\* The user types into the URL input, which is enabled while nothing loads
\* (l.437-440).
HomeType(url) ==
    /\ homePc = "form"
    /\ githubUrl # url
    /\ githubUrl' = url
    /\ UNCHANGED <<homePc, currentStep, statusMessage, homeError, progress, repoId,
                   homeIsLoading, pollAttempts>>
    /\ UNCHANGED <<pollVars, searchVars, chatVars, fnVars, hookVars>>

\* l.254-278: the form is submitted; the state is reset, the URL is checked,
\* and the ingest request is issued and awaited.
HomeSubmit ==
    /\ homePc = "form"
    /\ repoId' = JNull
    /\ IF Trim(githubUrl) = <<>>
       THEN /\ homeError' = "Please enter a GitHub repository URL"
            /\ currentStep' = "idle"
            /\ progress' = 0
            /\ UNCHANGED <<homePc, statusMessage, homeIsLoading>>
       ELSE IF ~Includes(githubUrl, "github.com")
       THEN /\ homeError' = "Please enter a valid GitHub URL"
            /\ currentStep' = "idle"
            /\ progress' = 0
            /\ UNCHANGED <<homePc, statusMessage, homeIsLoading>>
       ELSE /\ homeError' = ""
            /\ homeIsLoading' = TRUE
            /\ currentStep' = "ingesting"
            /\ statusMessage' = "Starting repository ingestion..."
            /\ progress' = Percent(10)
            /\ homePc' = "ingesting"
    /\ UNCHANGED <<githubUrl, pollAttempts>>
    /\ UNCHANGED <<pollVars, searchVars, chatVars, fnVars, hookVars>>

\* l.278-307: the ingest request fulfils; the flow goes on to polling and
\* calls pollRepositoryStatus, which issues its first status request.
HomeIngestFulfils ==
    /\ homePc = "ingesting"
    /\ repoId' = JNum(Repo("pending").id)
    /\ progress' = Percent(20)
    /\ statusMessage' = "Repository created! Processing codebase..."
    /\ currentStep' = "polling"
    /\ pollAttempts' = 0
    /\ homePc' = "polling"
    /\ PollCallBody
    /\ UNCHANGED <<githubUrl, homeError, homeIsLoading>>
    /\ UNCHANGED <<searchVars, chatVars, fnVars, hookVars>>

\* l.278 and l.312-333: the ingest request rejects.
HomeIngestFails(err) ==
    /\ homePc = "ingesting"
    /\ HomeCatch(err)
    /\ UNCHANGED <<githubUrl, statusMessage, pollAttempts>>
    /\ UNCHANGED <<pollVars, searchVars, chatVars, fnVars, hookVars>>

\* l.287 and l.309-311: pollRepositoryStatus has resolved; handleSubmit goes
\* on after its await.
HomePollResolves ==
    /\ homePc = "polling"
    /\ pollPc = "resolved"
    /\ currentStep' = "ready"
    /\ progress' = Percent(100)
    /\ homeIsLoading' = FALSE
    /\ homePc' = "settled"
    /\ UNCHANGED <<githubUrl, statusMessage, homeError, repoId, pollAttempts>>
    /\ UNCHANGED <<pollVars, searchVars, chatVars, fnVars, hookVars>>

\* l.287 and l.312-333: pollRepositoryStatus has rejected (a failed status,
\* the timeout, a failed request); the catch block of handleSubmit runs.
HomePollRejects ==
    /\ homePc = "polling"
    /\ pollPc = "rejected"
    /\ HomeCatch(ErrorObject(pollError))
    /\ UNCHANGED <<githubUrl, statusMessage, pollAttempts>>
    /\ UNCHANGED <<pollVars, searchVars, chatVars, fnVars, hookVars>>

\* l.223-229: the page as rendered first.
HomeInit ==
    /\ homePc = "form"
    /\ githubUrl = <<>>
    /\ currentStep = "idle"
    /\ statusMessage = ""
    /\ homeError = ""
    /\ progress = 0
    /\ repoId = JNull
    /\ homeIsLoading = FALSE
    /\ pollAttempts = 0

\* No Home page is in use.
HomeIdle ==
    /\ homePc = "none"
    /\ githubUrl = <<>>
    /\ currentStep = "idle"
    /\ statusMessage = ""
    /\ homeError = ""
    /\ progress = 0
    /\ repoId = JNull
    /\ homeIsLoading = FALSE
    /\ pollAttempts = 0

HomeNext ==
    \/ \E url \in GithubUrls : HomeType(url)
    \/ HomeSubmit
    \/ HomeIngestFulfils
    \/ \E err \in IngestFailures : HomeIngestFails(err)
    \/ \E st \in Statuses : PollStatusResponse(Repo(st))
    \/ \E err \in TransportFailures : PollStatusFailure(err)
    \/ PollTimerFires
    \/ HomePollResolves
    \/ HomePollRejects

(***************************************************************************)
(*                           Specifications                                *)
(***************************************************************************)

\* One call of pollRepositoryStatus.
PollSpecInit == PollInit /\ SearchIdle /\ ChatIdle /\ FnIdle /\ HookIdle /\ HomeIdle

PollSpec == PollSpecInit /\ [][PollNext]_vars

\* One instance of the useCodeSearch hook.
SearchSpecInit == SearchInit /\ PollIdle /\ ChatIdle /\ FnIdle /\ HookIdle /\ HomeIdle

SearchSpec == SearchSpecInit /\ [][SearchNext]_vars

\* One call of a chat sender.
ChatSpecInit == ChatInit /\ PollIdle /\ SearchIdle /\ FnIdle /\ HookIdle /\ HomeIdle

ChatSpec == ChatSpecInit /\ [][ChatNext]_vars

\* One function of the client library applied to one argument.
FnSpecInit == FnInit /\ PollIdle /\ SearchIdle /\ ChatIdle /\ HookIdle /\ HomeIdle

FnSpec == FnSpecInit /\ [][FnNext]_vars

\* One mounted instance of useRepository or useIndexStatus.
HookSpecInit == HookInit /\ PollIdle /\ SearchIdle /\ ChatIdle /\ FnIdle /\ HomeIdle

HookSpec == HookSpecInit /\ [][HookNext]_vars

\* One Home page and the call of pollRepositoryStatus its handleSubmit makes
\* (l.287-307: its own onUpdate, and its maxAttempts, which the model bounds).
HomeSpecInit ==
    /\ HomeInit
    /\ PollInit
    /\ onUpdateKind = "home"
    /\ maxAttempts = MaxAttemptsBound
    /\ SearchIdle /\ ChatIdle /\ FnIdle /\ HookIdle

HomeSpec == HomeSpecInit /\ [][HomeNext]_vars

\* The three together.
Init == PollInit /\ SearchInit /\ ChatInit /\ FnInit /\ HookInit /\ HomeInit

Next == PollNext \/ SearchNext \/ ChatNext \/ FnNext \/ HookNext \/ HomeNext

Spec == Init /\ [][Next]_vars

(***************************************************************************)
(*                   Claims about pollRepositoryStatus                     *)
(***************************************************************************)

StatusesOf(repos) == [i \in 1..Len(repos) |-> repos[i].status]

\* The statuses the claims call terminal.
TerminalStatuses == {"completed", "failed"}

TerminalObserved == fetched # <<>> /\ Last(fetched).status \in TerminalStatuses

NoTerminalFetched == \A i \in 1..Len(fetched) : fetched[i].status \notin TerminalStatuses

NoTerminalBeforeLast ==
    \A i \in 1..(Len(fetched) - 1) : fetched[i].status \notin TerminalStatuses

\* The call has settled on its last answer: resolved with that repository,
\* or rejected with the exception onUpdate threw for it.
SettledOnLastAnswer ==
    \/ /\ pollPc = "resolved"
       /\ pollResult = Last(fetched)
       /\ ~OnUpdateThrows(Last(fetched).status)
    \/ /\ pollPc = "rejected"
       /\ pollError = ProcessingFailedMessage
       /\ OnUpdateThrows(Last(fetched).status)

\* C4 as stated: once a status request has returned a repository whose
\* status is 'completed' or 'failed', the call is resolved with that
\* repository, and no status request and no wait follows it.
C4_Original ==
    TerminalObserved =>
        /\ pollPc = "resolved"
        /\ pollResult = Last(fetched)
        /\ requests = Len(fetched)
        /\ waits = Len(fetched) - 1
        /\ inFlight = 0

\* C4 (amended): once a status request has returned a repository whose
\* status is 'completed' or 'failed', the call has settled at once (resolved
\* with that repository, or rejected with the exception onUpdate threw for
\* that status), and no status request and no wait follows it: the requests
\* are exactly the ones answered, the waits exactly those after the earlier
\* answers.
C4_TerminalStopsPolling ==
    TerminalObserved =>
        /\ SettledOnLastAnswer
        /\ requests = Len(fetched)
        /\ waits = Len(fetched) - 1
        /\ inFlight = 0

C4_Witness ==
    /\ TerminalObserved
    /\ pollPc = "resolved"
    /\ Last(fetched).status = "failed"
    /\ Len(fetched) >= 2

\* C7 as stated: when the polls returned k-1 non-terminal statuses and then
\* a terminal one (k <= maxAttempts), exactly k requests were issued,
\* onUpdate received exactly those k statuses in order, and the call is
\* resolved with the k-th repository.
C7_Original ==
    (TerminalObserved /\ NoTerminalBeforeLast) =>
        /\ Len(fetched) <= maxAttempts
        /\ requests = Len(fetched)
        /\ updates = StatusesOf(fetched)
        /\ pollPc = "resolved"
        /\ pollResult = Last(fetched)

\* C7 (amended): when the polls returned k-1 non-terminal statuses and then a
\* terminal one (k <= maxAttempts), exactly k requests were issued and
\* onUpdate received exactly those k statuses in order; the call is resolved
\* with the k-th repository unless onUpdate threw for the k-th status, and
\* then it is rejected with that exception. While the call waits, onUpdate
\* has already been called for every request issued.
C7_UpdatesMatchPolls ==
    /\ (TerminalObserved /\ NoTerminalBeforeLast) =>
          /\ Len(fetched) <= maxAttempts
          /\ requests = Len(fetched)
          /\ updates = StatusesOf(fetched)
          /\ SettledOnLastAnswer
    /\ pollPc = "resolved" => (TerminalObserved /\ NoTerminalBeforeLast)
    /\ pollPc = "waiting" =>
          /\ Len(updates) = requests
          /\ waits = requests
          /\ updates = StatusesOf(fetched)

C7_Witness ==
    /\ pollPc = "resolved"
    /\ updates = <<"pending", "processing", "completed">>

\* C8: never more than maxAttempts requests; the call rejects with the
\* timeout error only after exactly maxAttempts requests, none of which
\* returned a terminal status; and once maxAttempts requests have all
\* returned non-terminal statuses the call is waiting for the last
\* interval or has rejected with the timeout error.
C8_TimeoutAfterMaxAttempts ==
    /\ requests <= maxAttempts
    /\ (pollPc = "rejected" /\ pollError = TimeoutMessage) =>
          /\ requests = maxAttempts
          /\ Len(fetched) = maxAttempts
          /\ NoTerminalFetched
          /\ inFlight = 0
    /\ (pollPc # "init" /\ Len(fetched) = maxAttempts /\ NoTerminalFetched) =>
          \/ pollPc = "waiting"
          \/ pollPc = "rejected" /\ pollError = TimeoutMessage

C8_Witness ==
    /\ pollPc = "rejected"
    /\ pollError = TimeoutMessage
    /\ maxAttempts = 2
    /\ requests = 2

\* C9: a call rejected with a transport failure made exactly one request
\* more than were answered (the failed one, not retried), onUpdate was
\* called only for the answered ones, and the error is that failure.
C9_FailurePropagates ==
    /\ requests - Len(fetched) <= 1
    /\ (pollPc = "rejected" /\ pollError \notin {TimeoutMessage, ProcessingFailedMessage}) =>
          /\ pollError \in TransportFailures
          /\ requests = Len(fetched) + 1
          /\ updates = StatusesOf(fetched)
          /\ inFlight = 0

C9_Witness ==
    /\ pollPc = "rejected"
    /\ pollError = "Network Error"
    /\ Len(fetched) = 1

\* C10: at most one status request is in flight, and a request is issued
\* only when none is in flight and either it is the first or the interval
\* wait after the previous one has just elapsed.
C10_SingleInFlight ==
    /\ [](inFlight <= 1)
    /\ [][requests' # requests =>
            /\ inFlight = 0
            /\ requests' = requests + 1
            /\ pollPc \in {"init", "waiting"}
            /\ (pollPc = "waiting" => waits = requests)]_vars

C10_Witness ==
    /\ inFlight = 1
    /\ requests = 3
    /\ waits = 2

\* C11: once the caller has abandoned the call while it waits between two
\* attempts, the interval timer never fires: the call stays where it is, no
\* status request is issued and onUpdate is not called again.
C11_TimerCancelledOnAbandon ==
    [][abandoned => /\ pollPc' = pollPc
                    /\ requests' = requests
                    /\ updates' = updates]_vars

(***************************************************************************)
(*                      Claims about useCodeSearch                         *)
(***************************************************************************)

\* The visible results, totalResults and latency are the ones the hook
\* takes from the response to execution n.
Shows(n) ==
    /\ results = Get(SearchApiSearch(n), "results")
    /\ totalResults = Get(SearchApiSearch(n), "totalResults")
    /\ latency = Get(SearchApiSearch(n), "latencyMs")

\* C26: an execution that has been superseded by a newer one can no
\* longer change the visible state: when its request is answered, results,
\* totalResults, latency, error and isLoading stay as they are.
C26_SupersededChangesNothing ==
    [][\A a \in 1..Len(execs) :
          ( /\ a < Len(execs)
            /\ execs[a] = "inflight"
            /\ execs'[a] # "inflight" )
          => UNCHANGED <<results, totalResults, latency, error, isLoading>>]_vars

\* C1: when the latest execution B has been answered and the visible state
\* shows B's response, the late answer (success or failure) of an earlier
\* execution A is discarded: the visible results, totalResults and latency
\* are still those of B's response.
C1_LastQueryWins ==
    [][\A a \in 1..Len(execs) :
          ( /\ a < Len(execs)
            /\ execs[a] = "inflight"
            /\ execs'[a] # "inflight"
            /\ execs[Len(execs)] = "fulfilled"
            /\ Shows(Len(execs)) )
          => Shows(Len(execs))']_vars

\* The debounce timer elapses in this step.
WindowCloses == debouncePending /\ ~debouncePending'

\* C5 as stated: no change of the query text issues a request, and (with
\* auto-search on) the end of every debounce window issues exactly one
\* request, carrying the last value.
C5_Original ==
    [][ /\ (query' # query => execs' = execs)
        /\ (WindowCloses /\ autoSearch) =>
               /\ Len(execs') = Len(execs) + 1
               /\ lastRequest'.q = Trim(query) ]_vars

\* C5 (amended): no change of the query text issues a request, it only
\* restarts the timer; the end of a debounce window issues exactly one
\* request, carrying the trimmed last value, when auto-search is on and the
\* last value is not empty after trimming and differs from the value
\* debounced before the window; otherwise it issues none.
C5_Debounce ==
    [][ /\ (query' # query => (execs' = execs /\ debouncePending'))
        /\ WindowCloses =>
               IF autoSearch /\ Trim(query) # <<>> /\ query # debouncedQuery
               THEN /\ Len(execs') = Len(execs) + 1
                    /\ execs'[Len(execs')] = "inflight"
                    /\ lastRequest'.q = Trim(query)
                    /\ lastRequest'.coalesced = windowChanges
               ELSE execs' = execs ]_vars

C5_Witness ==
    /\ lastRequest.coalesced = 2
    /\ lastRequest.q = <<"b">>
    /\ ~debouncePending
    /\ Len(execs) = 2
\* A request is issued in this step.
RequestIssued ==
    /\ Len(execs') = Len(execs) + 1
    /\ execs'[Len(execs')] = "inflight"

\* C17: every request that is issued carries the trimmed current query,
\* which is not empty; while the query is empty after trimming, no
\* operation (search, the auto-search effect, nextPage, prevPage, goToPage,
\* a filter change, a mode change) issues a request.
C17_NoEmptyQueryRequest ==
    [][ /\ Len(execs') > Len(execs) =>
              /\ lastRequest'.q # <<>>
              /\ lastRequest'.q = Trim(query)
        /\ Trim(query) = <<>> => Len(execs') = Len(execs) ]_vars

C17_Witness ==
    /\ query = <<" ">>
    /\ currentPage = 2
    /\ execs = <<"fulfilled">>
    /\ results = <<>>
    /\ totalResults = 0

C19_PageAtLeastOne ==
    /\ currentPage >= 1
    /\ lastRequest # NoRequest => lastRequest.page >= 1

\* C20: when the request of an execution fails, the execution ends with
\* error set to a message, results empty, totalResults 0 and isLoading
\* false; the execution ends there (nothing is thrown on).
C20_FailureClearsResults ==
    [][ \A n \in 1..Len(execs) :
          (execs[n] = "inflight" /\ execs'[n] # "inflight" /\ execs'[n] # "fulfilled") =>
              /\ execs'[n] = "rejected"
              /\ error' \notin {Null, Undefined}
              /\ results' = <<>>
              /\ totalResults' = 0
              /\ ~isLoading' ]_vars

C20_Witness ==
    /\ execs = <<"fulfilled", "rejected">>
    /\ error = "Network Error"
    /\ results = <<>>
    /\ totalResults = 0
    /\ ~isLoading

\* C31: when the newest execution has been answered and its response is
\* shown, the failure of an earlier, superseded execution changes neither
\* the error nor the results nor totalResults.
C31_SupersededFailureIgnored ==
    [][\A a \in 1..Len(execs) :
          ( /\ a < Len(execs)
            /\ execs[a] = "inflight"
            /\ execs'[a] = "rejected"
            /\ execs[Len(execs)] = "fulfilled"
            /\ Shows(Len(execs)) )
          => UNCHANGED <<error, results, totalResults>>]_vars

\* Two values of the hook's state are the same value, of whatever types.
SameValue(a, b) == ToString(a) = ToString(b)

\* The items of the response to execution n as transformSearchResult
\* gives them.
NormalizedItems(n) ==
    [i \in 1..Len(WireResponse(n).results) |->
        TransformSearchResult(
            JObj(<<Member("file_id", JNum(WireResponse(n).results[i].file_id))>>)).value]

\* C32: the response the hook applies has been normalized: totalResults is
\* the wire total_results, latency is the wire latency_ms, and each result
\* item is the transformSearchResult image of the wire item.
C32_AppliedResponseNormalized ==
    [][\A n \in 1..Len(execs) :
          (execs[n] = "inflight" /\ execs'[n] = "fulfilled")
          => /\ SameValue(totalResults', WireResponse(n).total_results)
             /\ SameValue(latency', WireResponse(n).latency_ms)
             /\ SameValue(results', NormalizedItems(n))]_vars

\* C33: isLoading is true whenever a search request of the hook is in
\* flight.
C33_LoadingWhileInFlight ==
    InFlightExecs # {} => isLoading

(***************************************************************************)
(*                 Claims about repositoryApi.chatStream                   *)
(***************************************************************************)

CallbackNames(cs) == [i \in 1..Len(cs) |-> cs[i].cb]

TerminalCallbacks == {"onDone", "onError"}

\* C2: however the response is cut into chunks, each complete data line is
\* parsed and dispatched exactly once: when the stream has been read to its
\* end, the callbacks invoked are, one for one and in order, those of the
\* data lines of the whole response.
C2_EachLineOnce ==
    chatPc = "fulfilled" => CallbackNames(calls) = CallbackNames(ProcessChunk(stream))

\* C3: once onDone or onError has been invoked, no callback is invoked
\* again in the session: a terminal callback is only ever the last one.
C3_NothingAfterTerminal ==
    \A i \in 1..(Len(calls) - 1) : calls[i].cb \notin TerminalCallbacks

\* C6: after the caller has aborted the session no callback fires (so the
\* abort is not reported through onError either).
C6_NoCallbackAfterAbort ==
    aborted => Len(calls) = callsAtAbort

\* The text the bytes encode (UTF-8).
RECURSIVE Utf8Text(_)
Utf8Text(bytes) ==
    IF bytes = <<>> THEN <<>>
    ELSE IF Len(bytes) >= 2 /\ bytes[1] = "c3" /\ bytes[2] = "a9"
         THEN <<"é">> \o Utf8Text(SubSeq(bytes, 3, Len(bytes)))
         ELSE <<bytes[1]>> \o Utf8Text(Tail(bytes))

\* The payload is a whole JSON object (the last byte of a payload that was
\* cut short is not a brace).
WellFormed(payload) == payload[Len(payload)] = "}"

CallbackOf == [t |-> "onToken", s |-> "onSources", d |-> "onDone", e |-> "onError"]

\* A well-formed payload of one of the four event types.
Recognized(payload) == WellFormed(payload) /\ payload[2] \in DOMAIN CallbackOf

\* The callback invocation a frame with this payload calls for.
ExpectedCall(payload) ==
    [cb |-> CallbackOf[payload[2]],
     arg |-> Utf8Text(SubSeq(payload, 3, Len(payload) - 1))]

RECURSIVE ExpectedCalls(_)
ExpectedCalls(payloads) ==
    IF payloads = <<>> THEN <<>>
    ELSE (IF Recognized(Head(payloads)) THEN <<ExpectedCall(Head(payloads))>> ELSE <<>>)
         \o ExpectedCalls(Tail(payloads))

\* The number of bytes of the stream up to the end of the data line of
\* frame i (the frame ends one byte later, with its blank line).
RECURSIVE DataLineEnd(_)
DataLineEnd(i) ==
    IF i = 0 THEN -1 ELSE DataLineEnd(i - 1) + Len(Frame(sent[i]))

\* The frames whose data line has been delivered whole.
Delivered == {i \in 1..Len(sent) : DataLineEnd(i) <= pos}

DeliveredPayloads == SubSeq(sent, 1, Cardinality(Delivered))

\* C12: while every read has ended at the end of a line, the callbacks
\* invoked so far are exactly those of the recognized frames delivered so
\* far, one for one and in wire order, each with the content (or
\* message_id) of its frame; and whatever the reads, onError is not invoked
\* when the response has no error frame.
C12_WireOrderCallbacks ==
    /\ cuts = "lines" => calls = ExpectedCalls(DeliveredPayloads)
    /\ (\A i \in 1..Len(sent) : sent[i][2] # "e") =>
           \A k \in 1..Len(calls) : calls[k].cb # "onError"

C12_Witness ==
    /\ chatPc = "fulfilled"
    /\ cuts = "lines"
    /\ calls = <<[cb |-> "onToken", arg |-> <<"é">>], [cb |-> "onDone", arg |-> <<"7">>]>>

C14_ReaderReleasedOnce ==
    /\ [](/\ chatPc = "reading" => (acquired /\ released = 0)
          /\ (acquired /\ chatPc \in {"fulfilled", "rejected"}) => released = 1
          /\ ~acquired => released = 0)
    /\ [][released' # released =>
            /\ released' = released + 1
            /\ chatPc = "reading"
            /\ chatPc' \in {"fulfilled", "rejected"}]_vars

C14_Witness ==
    /\ chatPc = "rejected"
    /\ acquired
    /\ released = 1
    /\ calls # <<>>
    /\ pos < Len(stream)

\* C15: when the only reads that ended inside a line ended inside a
\* multi-byte character, the callbacks invoked are still those of the frames
\* delivered, with the text their bytes encode.
C15_SplitCharacterDecoded ==
    cuts = "char" => calls = ExpectedCalls(DeliveredPayloads)

ValidationMessages ==
    {"Question is required", "Question is required and must be a non-empty string",
     "Question must be a non-empty string", "Question cannot be empty"}

\* C16 as stated: a sender called with an empty or whitespace-only question
\* has issued no request and has rejected with a validation error.
C16_Original ==
    (chatPc # "init" /\ Trim(question) = <<>>) =>
        /\ fetches = <<>>
        /\ chatPc = "rejected"
        /\ chatError \in ValidationMessages

\* C16 (amended): a sender called with an empty or whitespace-only question
\* issues no request; chatStream and chat reject with a validation error,
\* sendMessage resolves with null, with the validation message in error and
\* isLoading false. A request that is issued carries the trimmed question,
\* which is not empty.
C16_BlankQuestionRefused ==
    /\ (chatPc # "init" /\ Trim(question) = <<>>) =>
          /\ fetches = <<>>
          /\ sender \in {"chatStream", "chat"} =>
                 /\ chatPc = "rejected"
                 /\ chatError \in ValidationMessages
          /\ sender = "sendMessage" =>
                 /\ chatPc = "fulfilled"
                 /\ sendResult = Null
                 /\ chatHookError \in ValidationMessages
                 /\ ~chatIsLoading
    /\ fetches # <<>> => (fetches = <<Trim(question)>> /\ Trim(question) # <<>>)

C16_Witness ==
    /\ sender = "sendMessage"
    /\ question = <<" ">>
    /\ chatPc = "fulfilled"
    /\ chatHookError = "Question cannot be empty"
    /\ fetches = <<>>

\* C27: when a read of the chat stream fails, the callbacks already
\* invoked stay as they are (nothing is retracted, nothing delivered again)
\* and the call rejects with an error; callbacks are only ever added, and a
\* streaming call fulfils only after the whole response has been read.
C27_ReadFailureSurfaced ==
    /\ [](/\ chatPc = "rejected" => chatError # Null
          /\ (chatPc = "fulfilled" /\ acquired) => pos = Len(stream))
    /\ [][/\ Len(calls') >= Len(calls)
          /\ SubSeq(calls', 1, Len(calls)) = calls
          /\ (chatPc = "reading" /\ chatPc' = "rejected") => calls' = calls]_vars

\* A read failed after a token had been delivered and before the end of
\* the response.
C27_Witness ==
    /\ chatPc = "rejected"
    /\ acquired
    /\ chatError = "network error"
    /\ pos < Len(stream)
    /\ \E i \in 1..Len(calls) : calls[i].cb = "onToken"

\* The calls the step has added.
NewCalls == SubSeq(calls', Len(calls) + 1, Len(calls'))

\* The frame is of a type whose callback throws.
ThrowingFrame(payload) == Recognized(payload) /\ CallbackOf[payload[2]] \in throwing

C36_FulfilsOnlyAfterTerminal ==
    (sender = "chatStream" /\ chatPc = "fulfilled") =>
        \E k \in 1..Len(calls) : calls[k].cb \in TerminalCallbacks

\* C37: sendMessage never rejects: a question that fails validation and
\* a failed request both make it return null with error set to a message,
\* a successful request makes it return the response, and isLoading is
\* false once it has settled.
C37_SendMessageNeverRejects ==
    sender = "sendMessage" =>
        /\ chatPc # "rejected"
        /\ chatPc = "fulfilled" =>
              /\ ~chatIsLoading
              /\ sendResult \in {Null, ReplyMessage}
              /\ (sendResult = Null) = (chatHookError # "")

(***************************************************************************)
(*          Claims about the functions of the client library               *)
(***************************************************************************)

Applied(name) == fnPc = "done" /\ fnName = name

\* A string of decimal digits, with or without a sign and surrounding
\* white space.
NumericString(x) ==
    /\ Kind(x) = "string"
    /\ LET body == Trim(Val(x))
           digits == IF body # <<>> /\ Head(body) = "-" THEN Tail(body) ELSE body
       IN digits # <<>> /\ \A i \in 1..Len(digits) : IsDigit(digits[i])

NumericStringValue(x) ==
    LET body == Trim(Val(x))
    IN IF Head(body) = "-" THEN 0 - DecimalValue(Tail(body)) ELSE DecimalValue(body)

\* C21: transformSearchResult returns, and its fileId is a number: the
\* number a numeric-string file_id denotes, a number file_id itself, and the
\* sentinel 0 for every other value of file_id (missing, null, a string
\* that is not numeric, a value of another type).
C21_FileIdIsNumber ==
    Applied("transformSearchResult") =>
        /\ fnOutput.kind = "return"
        /\ LET raw == Prop(fnInput, "file_id")
           IN fnOutput.value.fileId =
                  (IF NumericString(raw) THEN JNum(NumericStringValue(raw))
                   ELSE IF Kind(raw) = "number" THEN raw
                   ELSE JNum(0))

\* The fields of a normalized record that are undefined.
UndefinedFields(record) ==
    {f \in DOMAIN record \ {"results"} : Kind(record[f]) = "undefined"}

\* C22: whatever optional member the wire response or one of its items
\* lacks, no field of the normalized response and no field of its result
\* items is undefined.
C22_NoUndefinedField ==
    /\ Applied("transformSearchResult") /\ fnOutput.kind = "return" =>
           UndefinedFields(fnOutput.value) = {}
    /\ Applied("searchApi.search") /\ fnOutput.kind = "return" =>
           /\ UndefinedFields(fnOutput.value) = {}
           /\ \A i \in 1..Len(fnOutput.value.results) :
                  UndefinedFields(fnOutput.value.results[i]) = {}

\* C23: extractErrorMessage is total: for every input it returns, and what
\* it returns is a string that is not empty.
C23_TotalNonEmpty ==
    Applied("extractErrorMessage") =>
        /\ fnOutput.kind = "return"
        /\ Kind(fnOutput.value) = "string"
        /\ Val(fnOutput.value) # <<>>

\* The response body of an error, as extractErrorMessage reads it.
BodyOf(e) == Prop(Prop(e, "response"), "data")

HasBody(e) == Truthy(BodyOf(e))

DetailOf(e) == Prop(BodyOf(e), "detail")

\* The rules of extractErrorMessage in their order, each with whether it
\* applies to e and what it gives; the first rule is for the values given.
MessageRules(e, unknownFor) ==
    << [applies |-> unknownFor,
        result |-> UnknownErrorText],
       [applies |-> Kind(e) = "string",
        result |-> e],
       [applies |-> HasBody(e) /\ Kind(DetailOf(e)) = "array",
        result |-> IF Kind(DetailOf(e)) = "array"
                   THEN DetailArrayMessage(Val(DetailOf(e))).value ELSE JUndef],
       [applies |-> HasBody(e) /\ Kind(DetailOf(e)) = "string",
        result |-> DetailOf(e)],
       [applies |-> HasBody(e) /\ Kind(DetailOf(e)) = "object",
        result |-> IF Truthy(Prop(DetailOf(e), "message")) THEN Prop(DetailOf(e), "message")
                   ELSE IF Truthy(Prop(DetailOf(e), "msg")) THEN Prop(DetailOf(e), "msg")
                   ELSE JStr(Stringify(DetailOf(e)))],
       [applies |-> HasBody(e) /\ Truthy(Prop(BodyOf(e), "message")),
        result |-> Prop(BodyOf(e), "message")],
       [applies |-> HasBody(e) /\ Kind(BodyOf(e)) \in {"object", "array"},
        result |-> JStr(Stringify(BodyOf(e)))],
       [applies |-> Truthy(Prop(e, "message")),
        result |-> Prop(e, "message")],
       [applies |-> Truthy(Prop(e, "msg")),
        result |-> Prop(e, "msg")],
       [applies |-> TRUE,
        result |-> UnexpectedErrorText] >>

\* What the first applicable rule gives.
FirstMatch(rules) ==
    rules[CHOOSE i \in 1..Len(rules) :
              rules[i].applies /\ \A j \in 1..(i - 1) : ~rules[j].applies].result

ValidationEntry(entry) ==
    /\ Kind(entry) = "object"
    /\ Kind(Prop(entry, "msg")) = "string"
    /\ \/ Kind(Prop(entry, "loc")) = "undefined"
       \/ /\ Kind(Prop(entry, "loc")) = "array"
          /\ \A i \in 1..Len(Val(Prop(entry, "loc"))) :
                 Kind(Val(Prop(entry, "loc"))[i]) \in {"string", "number"}

SegmentText(segment) ==
    IF Kind(segment) = "string" THEN Val(segment) ELSE <<ToString(Val(segment))>>

RECURSIVE Dotted(_)
Dotted(segments) ==
    IF Len(segments) = 1 THEN SegmentText(segments[1])
    ELSE SegmentText(segments[1]) \o <<".">> \o Dotted(Tail(segments))

\* The path segments after the first, joined with '.'; "field" without any.
LocationText(entry) ==
    LET loc == Prop(entry, "loc")
        rest == IF Kind(loc) = "array" /\ Len(Val(loc)) > 1 THEN Tail(Val(loc)) ELSE <<>>
    IN IF rest = <<>> \/ Dotted(rest) = <<>> THEN <<"field">> ELSE Dotted(rest)

RECURSIVE Rendered(_)
Rendered(entries) ==
    IF entries = <<>> THEN <<>>
    ELSE LocationText(entries[1]) \o <<": ">> \o Val(Prop(entries[1], "msg"))
         \o (IF Len(entries) > 1 THEN <<"; ">> \o Rendered(Tail(entries)) ELSE <<>>)

ValidationDetail(e) ==
    /\ Kind(e) = "object"
    /\ Kind(DetailOf(e)) = "array"
    /\ Val(DetailOf(e)) # <<>>
    /\ \A i \in 1..Len(Val(DetailOf(e))) : ValidationEntry(Val(DetailOf(e))[i])

\* C25: for an error whose body detail is an array of validation entries,
\* extractErrorMessage returns "<location>: <msg>" of each entry in array
\* order, joined with "; ".
C25_ValidationRendering ==
    Applied("extractErrorMessage") /\ ValidationDetail(fnInput) =>
        fnOutput = Returns(JStr(Rendered(Val(DetailOf(fnInput)))))

\* Two entries, one with a path of two segments, were rendered.
C25_Witness ==
    /\ Applied("extractErrorMessage")
    /\ ValidationDetail(fnInput)
    /\ Len(Val(DetailOf(fnInput))) = 2
    /\ fnOutput = Returns(JStr(<<"name", ": ", "required", "; ", "k", ": ", "too big">>))

\* C28: the interceptors pass on what they were given: the request
\* interceptor fulfils with the config it received, the response interceptor
\* with the response it received, and the two error handlers reject with the
\* error they received.
C28_InterceptorsPassThrough ==
    fnPc = "done" /\ fnName \in InterceptorNames =>
        fnOutput = [kind |-> IF fnName \in {"request interceptor", "response interceptor"}
                             THEN "fulfilled" ELSE "rejected",
                    value |-> fnInput]

\* A response went through the response interceptor of a development build.
C28_Witness ==
    /\ fnPc = "done"
    /\ fnName = "response interceptor"
    /\ fnEnv = "development"
    /\ Kind(Prop(fnInput, "data")) = "object"
    /\ fnOutput.kind = "fulfilled"
    /\ fnOutput.value = fnInput

(***************************************************************************)
(*                Claims about the interval-driven pollers                 *)
(***************************************************************************)

\* The step issues a status request from the callback of the interval.
IntervalRequest ==
    /\ Len(hkReqs') = Len(hkReqs) + 1
    /\ hkReqs'[Len(hkReqs')].by = "tick"

\* C29: in useRepository, once a response with status completed or failed
\* has been applied, the interval issues no further status request, in
\* whatever order the outstanding responses arrive.
C29_NoPollAfterTerminal ==
    [][(hook = "useRepository" /\ hkTerminalApplied) => ~IntervalRequest]_vars

\* C30: the interval of useRepository and of useIndexStatus issues no
\* status request while an earlier status request of the hook is in flight.
C30_NoOverlappingPolls ==
    [][IntervalRequest => InFlight = {}]_vars

\* The step applies the failure of a status request.
FailureApplied ==
    /\ hkMounted = "yes"
    /\ \E n \in 1..Len(hkReqs) : hkReqs[n].state = "inflight" /\ hkReqs'[n].state = "rejected"

\* C38: useIndexStatus has at most one interval timer at any time, and has
\* one only while it is mounted and enabled and the status applied last is
\* 'pending' or 'running'; the failure of a request leaves no timer, and
\* once a terminal status has been applied, or the hook has unmounted, no
\* timer is left and the interval issues no further request.
C38_TimerOnlyWhilePolling ==
    /\ [](hook = "useIndexStatus" =>
            /\ hkInterval <= 1
            /\ hkInterval > 0 =>
                  /\ hkMounted = "yes"
                  /\ hkEnabled
                  /\ hkStatus \in {"pending", "running"})
    /\ [][(hook = "useIndexStatus" /\ FailureApplied) => hkInterval' = 0]_vars
    /\ [][(hook = "useIndexStatus" /\ (hkTerminalApplied \/ hkMounted = "gone")) =>
             /\ ~IntervalRequest
             /\ hkInterval' = 0]_vars

(***************************************************************************)
(*                  Claims about the ingest flow of Home                   *)
(***************************************************************************)

\* The flow has ended in its catch block.
HomeFailed == homePc = "settled" /\ currentStep # "ready"

\* C34: the ingest flow of Home shows step 'ready' only when the last status
\* pollRepositoryStatus fetched is 'completed'; once the polling has failed
\* (a 'failed' status, the timeout, a failed request) the step is never
\* 'ready', and a flow that has failed, in the ingest request or in the
\* polling, is back at step 'idle' with a non-empty error, progress 0 and no
\* repoId.
C34_ReadyOnlyAfterCompleted ==
    /\ currentStep = "ready" =>
          /\ fetched # <<>>
          /\ Last(fetched).status = "completed"
          /\ pollPc = "resolved"
    /\ pollPc = "rejected" => currentStep # "ready"
    /\ (\E i \in 1..Len(fetched) : fetched[i].status = "failed") => currentStep # "ready"
    /\ HomeFailed =>
          /\ currentStep = "idle"
          /\ homeError # ""
          /\ progress = 0
          /\ repoId = JNull
          /\ ~homeIsLoading

\* A flow that polled more than once, saw 'failed' and has ended.
C34_Witness ==
    /\ HomeFailed
    /\ Len(fetched) >= 2
    /\ Last(fetched).status = "failed"
====
